---- MODULE Spec2Model ----
(***************************************************************************)
(* Model of the real-time audio session controller of                     *)
(* week2/pipecat_ivr.py: the websocket_handler coroutine that receives    *)
(* carrier frames, segments caller speech with an energy VAD, runs the    *)
(* transcription / dialogue / synthesis turn and streams the reply back.  *)
(*                                                                         *)
(* One connection is one coroutine.  Its position is pc; every action is  *)
(* the code the coroutine runs between two suspension or blocking points. *)
(* Frames sent by the carrier wait in inbox until the coroutine is back   *)
(* at websocket.receive_text().  Time is counted in ticks of 300 ms.      *)
(***************************************************************************)
EXTENDS Integers, Sequences, FiniteSets, TLC

----------------------------------------------------------------------------
(* Bounds of the model                                                     *)

\* ticks the clock may advance after the connection is accepted
MaxTicks == 4
\* frames the carrier can have in flight while the coroutine is busy
MaxInbox == 1
\* utterances flushed to the transcription service on one connection
MaxTurns == 2
\* media frames with audio the carrier sends on one connection: when the segmentation is
\* examined, and when the turn is
MaxFrames == 4
MaxTurnFrames == 2
\* payload sizes (bytes) of the media frames the carrier sends
SmallFrame == 1500
BigFrame == 40000
\* size (bytes) of the mu-law audio synthesized for one message
AudioBytes == 1000
\* value of time.time() when the connection is accepted, in ticks
StartTime == 10
\* tool calls that one reply of the dialogue engine may ask for
MaxToolCalls == 5
\* ticks by which the clock may run past the end of a stream of frames
MaxLate == 1
\* frames that wait at the second connection
MaxPeerFrames == 2
\* seconds between two looks at the session cache
ElapseSeconds == 100
\* length of state.messages of voice_ivr beyond which no more audio is processed
MaxMessages == 13

----------------------------------------------------------------------------
(* Program constants, times in ticks                                       *)

\* one tick of the model clock, in milliseconds
MsPerTick == 3 * 100

MIN_PAUSE_AFTER_SPEECH == 1500 \div MsPerTick
SILENCE_DURATION_TO_PROCESS == 1200 \div MsPerTick
TRAILING_SILENCE == 300 \div MsPerTick
MIN_AUDIO_LENGTH == 4000
ENERGY_THRESHOLD == 500
BUFFER_CEILING == 80000
chunk_size == 640
\* bytes of mu-law audio played per second ("sampleRate": 8000, one byte a sample)
BYTES_PER_SECOND == 8000
\* asyncio.sleep(0.04) after a chunk, lines 698, 746, 849, 926, in milliseconds
SLEEP_AFTER_CHUNK == 40

----------------------------------------------------------------------------
(* Mu-law codec and energy                                                 *)

Abs(x) == IF x < 0 THEN -x ELSE x

RECURSIVE Pow2(_)
Pow2(n) == IF n = 0 THEN 1 ELSE 2 * Pow2(n - 1)

\* mulaw_decode: ~b & 0xFF, then sign / exponent / mantissa
\* (variant: the mantissa is shifted by four bits)
mulaw_decode_wide(mulaw_byte) ==
    LET inv      == 255 - mulaw_byte
        sign     == (inv \div 128) % 2
        exponent == (inv \div 16) % 8
        mantissa == inv % 16
        sample   == ((mantissa * 16) + 132) * Pow2(exponent) - 132
    IN  IF sign = 1 THEN -sample ELSE sample

mulaw_decode(mulaw_byte) ==
    LET inv      == 255 - mulaw_byte
        sign     == (inv \div 128) % 2
        exponent == (inv \div 16) % 8
        mantissa == inv % 16
        sample   == ((mantissa * 8) + 132) * Pow2(exponent) - 132
    IN  IF sign = 1 THEN -sample ELSE sample

\* pcm_to_mulaw, lines 465-485
MULAW_MAX == 8191
MULAW_BIAS == 33

Min(a, b) == IF a < b THEN a ELSE b

\* the first exp in range(8) with pcm_sample < (1 << (exp + 8)), else 7
RECURSIVE FirstExponent(_, _)
FirstExponent(pcm_sample, exp) ==
    IF exp = 8 THEN 7
    ELSE IF pcm_sample < Pow2(exp + 8) THEN exp
    ELSE FirstExponent(pcm_sample, exp + 1)

pcm_to_mulaw(pcm_sample) ==
    LET sign     == IF pcm_sample < 0 THEN 128 ELSE 0
        biased   == Min(Abs(pcm_sample) + MULAW_BIAS, MULAW_MAX)
        exponent == FirstExponent(biased, 0)
        mantissa == (biased \div Pow2(exponent + 3)) % 16
    IN  255 - (sign + exponent * 16 + mantissa)

\* the step between two neighbouring samples of the segment of mulaw_byte:
\* the mantissa is shifted by 3 + exponent bits at line 461
QuantizationStep(mulaw_byte) == 8 * Pow2(((255 - mulaw_byte) \div 16) % 8)

\* x & mask and x >> n on Python integers: a negative x behaves as its
\* two's complement with the sign bit repeated without end, mask >= 0
RECURSIVE BitAnd(_, _)
BitAnd(x, mask) ==
    IF mask = 0 THEN 0
    ELSE (x % 2) * (mask % 2) + 2 * BitAnd(x \div 2, mask \div 2)

ShiftRight(x, n) == x \div Pow2(n)

\* the decode written out in the loop of calculate_audio_energy, lines 376-384
energy_sample(byte) ==
    LET inv      == BitAnd(-byte - 1, 255)
        sign     == BitAnd(inv, 128)
        exponent == BitAnd(ShiftRight(inv, 4), 7)
        mantissa == BitAnd(inv, 15)
        sample   == ((mantissa * 8) + 132) * Pow2(exponent) - 132
    IN  IF sign # 0 THEN -sample ELSE sample

\* decode_mulaw of week2/voice_ivr.py, lines 219-227: byte = ~byte is not
\* masked to 8 bits, so it is negative; sign, exponent and mantissa are
\* taken from it with the masks 0x80, 0x70 and 0x0F
\* (variant: the sign is read from the sign of ~byte)
decode_mulaw_signed(byte) ==
    LET inv      == -byte - 1
        sign     == IF inv < 0 THEN 1 ELSE 0
        exponent == ShiftRight(BitAnd(inv, 112), 4)
        mantissa == BitAnd(inv, 15)
        sample   == ((mantissa * 8) + 132) * Pow2(exponent) - 132
    IN  IF sign # 0 THEN -sample ELSE sample

decode_mulaw(byte) ==
    LET inv      == -byte - 1
        sign     == ShiftRight(BitAnd(inv, 128), 7)
        exponent == ShiftRight(BitAnd(inv, 112), 4)
        mantissa == BitAnd(inv, 15)
        sample   == ((mantissa * 8) + 132) * Pow2(exponent) - 132
    IN  IF sign # 0 THEN -sample ELSE sample

\* struct.pack('<h', sample): struct.error unless the sample is a signed
\* 16-bit integer
INT16_MIN == -32768
INT16_MAX == 32767

pack_h(sample) == IF sample >= INT16_MIN /\ sample <= INT16_MAX THEN "ok" ELSE "error"

\* A media payload is a run of n equal mu-law bytes b: [byte |-> b, len |-> n].
\* calculate_audio_energy sums the squared decoded samples and returns the
\* root of their mean; for a run of equal bytes the mean of the squares is
\* the square of the one sample, so the RMS is its absolute value.
calculate_audio_energy(audio_chunk) ==
    IF audio_chunk.len = 0 THEN 0
    ELSE Abs(mulaw_decode(audio_chunk.byte))

\* mu-law bytes used for payloads: silence (decodes to 0), a quiet tone just
\* below the threshold (492), one just above it (524), a loud tone (32124)
BYTE_SILENCE == 255
BYTE_QUIET == 220
BYTE_SOFT == 219
BYTE_LOUD == 128

----------------------------------------------------------------------------
(* Strings are sequences of one-character strings                          *)

UPPER == <<"A","B","C","D","E","F","G","H","I","J","K","L","M",
           "N","O","P","Q","R","S","T","U","V","W","X","Y","Z">>
LOWERS == <<"a","b","c","d","e","f","g","h","i","j","k","l","m",
            "n","o","p","q","r","s","t","u","v","w","x","y","z">>

LowerChar(c) ==
    IF \E i \in 1..26 : UPPER[i] = c
    THEN LOWERS[CHOOSE i \in 1..26 : UPPER[i] = c]
    ELSE c

\* str.lower()
Lower(s) == [i \in 1..Len(s) |-> LowerChar(s[i])]

\* str.strip(chars): drop leading and trailing characters that are in chars
StripChars(s, chars) ==
    LET keep == {i \in 1..Len(s) : s[i] \notin chars}
    IN  IF keep = {} THEN <<>>
        ELSE LET lo == CHOOSE i \in keep : \A j \in keep : i <= j
                 hi == CHOOSE i \in keep : \A j \in keep : i >= j
             IN  SubSeq(s, lo, hi)

WHITESPACE == {" "}
PUNCTUATION == {".", ",", "!", "?"}

\* str.strip()
Strip(s) == StripChars(s, WHITESPACE)

\* str.startswith(p), str.endswith(p), and the substring test  p in s
StartsWith(s, p) == Len(p) <= Len(s) /\ SubSeq(s, 1, Len(p)) = p
EndsWith(s, p) == Len(p) <= Len(s) /\ SubSeq(s, Len(s) - Len(p) + 1, Len(s)) = p
Contains(s, p) ==
    \E i \in 1..(Len(s) - Len(p) + 1) : SubSeq(s, i, i + Len(p) - 1) = p

InList(s, list) == \E i \in 1..Len(list) : list[i] = s

----------------------------------------------------------------------------
(* Phrase lists, lines 365-367, 389-413, 643                               *)

NO_RESPONSES ==
    << <<"n","o">>,
       <<"n","o","p","e">>,
       <<"n","o"," ","t","h","a","n","k","s">>,
       <<"n","o","t","h","i","n","g">>,
       <<"t","h","a","t","'","s"," ","a","l","l">>,
       <<"i","'","m"," ","g","o","o","d">>,
       <<"n","o"," ","i","'","m"," ","g","o","o","d">>,
       <<"n","o","p","e"," ","t","h","a","t","'","s"," ","i","t">>,
       <<"n","o"," ","q","u","e","s","t","i","o","n","s">>,
       <<"n","o","t","h","i","n","g"," ","e","l","s","e">>,
       <<"a","l","l"," ","g","o","o","d">>,
       <<"i","'","m"," ","f","i","n","e">>,
       <<"n","o"," ","t","h","a","n","k"," ","y","o","u">> >>

EXIT_PHRASES ==
    << <<"g","o","o","d","b","y","e">>,
       <<"b","y","e">>,
       <<"b","y","e"," ","b","y","e">>,
       <<"g","o","o","d"," ","b","y","e">>,
       <<"b","y","e"," ","f","o","r"," ","n","o","w">>,
       <<"b","y","e"," ","n","o","w">>,
       <<"t","h","a","t","'","s"," ","a","l","l">>,
       <<"t","h","a","t","'","s"," ","i","t">>,
       <<"n","o","t","h","i","n","g"," ","e","l","s","e">>,
       <<"n","o"," ","m","o","r","e"," ","q","u","e","s","t","i","o","n","s">>,
       <<"i","'","m"," ","d","o","n","e">>,
       <<"a","l","l"," ","d","o","n","e">>,
       <<"w","e","'","r","e"," ","d","o","n","e">>,
       <<"t","h","a","t","'","s"," ","e","v","e","r","y","t","h","i","n","g">>,
       <<"t","h","a","n","k"," ","y","o","u"," ","b","y","e">>,
       <<"t","h","a","n","k","s"," ","b","y","e">>,
       <<"t","h","a","n","k"," ","y","o","u"," ","g","o","o","d","b","y","e">>,
       <<"t","h","a","n","k","s"," ","t","h","a","t","'","s"," ","a","l","l">>,
       <<"t","h","a","n","k","s"," ","i","'","m"," ","d","o","n","e">>,
       <<"t","h","a","n","k"," ","y","o","u"," ","t","h","a","t","'","s"," ","i","t">>,
       <<"t","h","a","n","k","s"," ","i","'","m"," ","g","o","o","d"," ","n","o","w">>,
       <<"e","n","d"," ","c","a","l","l">>,
       <<"h","a","n","g"," ","u","p">>,
       <<"d","i","s","c","o","n","n","e","c","t">>,
       <<"e","n","d"," ","t","h","e"," ","c","a","l","l">>,
       <<"c","u","t"," ","t","h","e"," ","c","a","l","l">>,
       <<"g","o","t","t","a"," ","g","o">>,
       <<"h","a","v","e"," ","t","o"," ","g","o">>,
       <<"n","e","e","d"," ","t","o"," ","g","o">>,
       <<"i","'","l","l"," ","l","e","t"," ","y","o","u"," ","g","o">>,
       <<"o","k","a","y"," ","b","y","e">>,
       <<"a","l","r","i","g","h","t"," ","b","y","e">>,
       <<"o","k","a","y"," ","t","h","a","t","'","s"," ","a","l","l">>,
       <<"a","l","r","i","g","h","t"," ","t","h","a","t","'","s"," ","i","t">>,
       <<"i"," ","t","h","i","n","k"," ","i","'","m"," ","d","o","n","e">>,
       <<"i"," ","t","h","i","n","k"," ","t","h","a","t","'","s"," ","a","l","l">>,
       <<"i"," ","g","u","e","s","s"," ","t","h","a","t","'","s"," ","i","t">>,
       <<"n","o","p","e"," ","t","h","a","t","'","s"," ","a","l","l">>,
       <<"n","o"," ","t","h","a","t","'","s"," ","i","t">>,
       <<"n","o"," ","i","'","m"," ","d","o","n","e">> >>

NOT_EXIT_PHRASES ==
    << <<"t","h","a","n","k"," ","y","o","u">>,
       <<"t","h","a","n","k","s">>,
       <<"t","h","a","n","k"," ","y","o","u"," ","s","o"," ","m","u","c","h">>,
       <<"t","h","a","n","k","s"," ","a"," ","l","o","t">>,
       <<"t","h","a","n","k","s"," ","s","o"," ","m","u","c","h">>,
       <<"o","k","a","y">>,
       <<"o","k">>,
       <<"g","o","t"," ","i","t">>,
       <<"a","l","r","i","g","h","t">>,
       <<"c","o","o","l">>,
       <<"g","r","e","a","t">>,
       <<"p","e","r","f","e","c","t">>,
       <<"a","w","e","s","o","m","e">>,
       <<"i"," ","s","e","e">>,
       <<"i"," ","u","n","d","e","r","s","t","a","n","d">>,
       <<"u","n","d","e","r","s","t","o","o","d">>,
       <<"m","a","k","e","s"," ","s","e","n","s","e">>,
       <<"t","h","a","t"," ","h","e","l","p","s">>,
       <<"w","o","n","d","e","r","f","u","l">>,
       <<"e","x","c","e","l","l","e","n","t">>,
       <<"f","a","n","t","a","s","t","i","c">>,
       <<"a","m","a","z","i","n","g">>,
       <<"s","u","r","e">>,
       <<"r","i","g","h","t">> >>

garbage_words ==
    << <<"y","o","u">>,
       <<"y","o","u",".">>,
       <<"y","e","a","h">>,
       <<"h","m","m">>,
       <<"u","h">>,
       <<"u","m">>,
       <<>> >>


----------------------------------------------------------------------------
(* Transcripts the transcription service may return                        *)

T_HELLO == <<"H","e","l","l","o"," ","t","h","e","r","e">>
T_THANKS == <<" ","T","h","a","n","k"," ","y","o","u">>
T_OK == <<"O","k">>
T_BYE == <<"B","y","e",".">>
T_NO == <<"N","o",".">>
T_EMPTY == <<>>
T_UM == <<" ","u","m"," ">>
T_THATSALL == <<"t","h","a","t","'","s"," ","a","l","l">>
T_NOBYE == <<"N","o"," ","t","h","a","n","k","s",","," ","b","y","e">>
T_YOU == <<"Y","o","u",".">>

Transcripts ==
    { T_HELLO, T_THANKS, T_OK, T_BYE, T_NO, T_EMPTY, T_UM, T_THATSALL, T_NOBYE,
      T_YOU }

----------------------------------------------------------------------------
(* Transcript classification, lines 641-663                                *)

clean_transcript(t) == Lower(Strip(t))

is_garbage(t) ==
    InList(clean_transcript(t), garbage_words) \/ Len(clean_transcript(t)) < 3

is_simple_ack(t) == InList(clean_transcript(t), NOT_EXIT_PHRASES)

is_exit(t) ==
    /\ \E i \in 1..Len(EXIT_PHRASES) : Contains(clean_transcript(t), EXIT_PHRASES[i])
    /\ ~is_simple_ack(t)

clean_for_no_check(t) == StripChars(clean_transcript(t), PUNCTUATION)

is_no_response(t) ==
    \E i \in 1..Len(NO_RESPONSES) :
        LET no_word == NO_RESPONSES[i]
            c       == clean_for_no_check(t)
        IN  \/ no_word = c
            \/ StartsWith(c, no_word \o <<" ">>)
            \/ EndsWith(c, <<" ">> \o no_word)

----------------------------------------------------------------------------
(* Replies of the dialogue engine: sequences of tokens                     *)

SENTINEL == "[EXIT_INTENT_DETECTED]"

R_ANSWER == <<"Sure,", "here", "you", "go.">>
R_EXIT == <<"Goodbye!", SENTINEL>>
R_ONLY_SENTINEL == <<SENTINEL>>

Replies == { R_ANSWER, R_EXIT, R_ONLY_SENTINEL }

\* "[EXIT_INTENT_DETECTED]" in ai_response
HasSentinel(r) == \E i \in 1..Len(r) : r[i] = SENTINEL

\* ai_response.replace("[EXIT_INTENT_DETECTED]", "").strip()
RemoveSentinel(r) == SelectSeq(r, LAMBDA w : w # SENTINEL)

ask_msg == <<"Before", "I", "let", "you", "go,", "do", "you", "have", "any", "other", "questions?">>
goodbye_msg == <<"Thank", "you", "for", "calling!", "Goodbye", "and", "have", "a", "great", "day!">>

----------------------------------------------------------------------------
(* State of one connection                                                 *)

VARIABLES
    pc,                 \* position of the websocket_handler coroutine
    now,                \* time.time(), in ticks
    inbox,              \* frames sent by the carrier, not yet received
    stream_id,
    audio_buffer,       \* bytearray, as runs [byte, len] of equal bytes
    is_speaking,
    is_interrupted,
    last_response_time,
    last_audio_time,
    last_silence_time,
    user_is_speaking,
    pending_goodbye,
    conversation,
    wav_audio,          \* pcm_samples handed to the transcription call
    transcript,
    ai_response,
    mulaw_audio,        \* bytes of synthesized audio being streamed out
    chunks_sent,
    closed,             \* websocket.close() has completed
    \* history variables, not read by the program
    delivered,          \* audio frames sent by the carrier so far
    turns,              \* flushes so far
    in_flight,          \* pipeline runs started and not yet ended
    utt_speech,         \* above-threshold bytes appended since the last flush
    barge_in,           \* loud frame delivered while reply chunks remained
    turn,               \* what the current or last turn did
    sent,               \* playAudio frames of the current or last turn
    heard,              \* last audio frame handled: clock reading, speech or not
    \* functions of the module examined apart from a connection
    codec,              \* a mu-law byte and what the codec functions make of it
    peer,               \* a second connection served by the same event loop
    lookup,             \* a search_knowledge tool call and its result
    session,            \* the cache entry session:<caller_id> of one caller
    voice,              \* week2/voice_ivr.py: conversations and its connections
    confirmation        \* a transcript and whether it declines more questions

vars ==
    << pc, now, inbox, stream_id, audio_buffer, is_speaking, is_interrupted,
       last_response_time, last_audio_time, last_silence_time,
       user_is_speaking, pending_goodbye, conversation, wav_audio, transcript,
       ai_response, mulaw_audio, chunks_sent, closed,
       delivered, turns, in_flight, utt_speech, barge_in, turn, sent, heard,
       codec, peer, lookup, session, voice, confirmation >>

\* the variables of the connection
connection ==
    << pc, now, inbox, stream_id, audio_buffer, is_speaking, is_interrupted,
       last_response_time, last_audio_time, last_silence_time,
       user_is_speaking, pending_goodbye, conversation, wav_audio, transcript,
       ai_response, mulaw_audio, chunks_sent, closed,
       delivered, turns, in_flight, utt_speech, barge_in, turn, sent, heard >>

\* the variables that no step of a connection reads or writes
apart == << codec, peer, lookup, session, voice, confirmation >>

vadVars ==
    << audio_buffer, last_audio_time, last_silence_time, user_is_speaking >>

turnLocals == << wav_audio, transcript, ai_response, mulaw_audio, chunks_sent >>

\* history variables that only the carrier and the flush change
history == << turns, in_flight, utt_speech, barge_in, turn, sent, heard >>

----------------------------------------------------------------------------
(* Byte buffers as runs of equal bytes                                     *)

RECURSIVE BufLen(_)
BufLen(buf) == IF buf = <<>> THEN 0 ELSE Head(buf).len + BufLen(Tail(buf))

\* bytearray.extend(chunk)
Extend(buf, chunk) ==
    IF chunk.len = 0 THEN buf
    ELSE IF buf # <<>> /\ buf[Len(buf)].byte = chunk.byte
         THEN [buf EXCEPT ![Len(buf)].len = @ + chunk.len]
         ELSE Append(buf, chunk)

RECURSIVE SamplesLen(_)
SamplesLen(w) == IF w = <<>> THEN 0 ELSE Head(w).len + SamplesLen(Tail(w))

\* [mulaw_decode(b) for b in audio_buffer]
DecodeAll(buf) ==
    [i \in 1..Len(buf) |-> [sample |-> mulaw_decode(buf[i].byte), len |-> buf[i].len]]

\* mulaw_audio[i:i + chunk_size] for the chunk that follows n sent chunks
\* (variant: every frame carries a full chunk_size bytes)
NextChunkLenPadded(total, n) == chunk_size

NextChunkLen(total, n) ==
    IF total - n * chunk_size >= chunk_size THEN chunk_size
    ELSE total - n * chunk_size

\* number of iterations of  for i in range(0, len(audio), chunk_size)
NumChunks(total) == (total + chunk_size - 1) \div chunk_size

----------------------------------------------------------------------------
(* Inputs                                                                  *)

Frame(e, b, n) == [event |-> e, byte |-> b, len |-> n]

PayloadBytes == { BYTE_SILENCE, BYTE_QUIET, BYTE_SOFT, BYTE_LOUD }
PayloadLens == { SmallFrame, BigFrame }

MediaFrames == { Frame("media", b, n) : b \in PayloadBytes, n \in PayloadLens }

ControlFrames ==
    { Frame(e, 0, 0) :
        e \in { "start", "stop", "dtmf", "media", "bad_json", "bad_payload", "disconnect" } }

Frames == MediaFrames \cup ControlFrames

AudioLens == { AudioBytes }

SystemMessage == [role |-> "system", content |-> <<"SYSTEM_PROMPT">>, tool_calls |-> <<>>]

\* what a turn did: pending_goodbye and conversation at its flush, whether
\* a transcript came back, engine invocations, how exit intent was found,
\* the fate of the question, of the closing message and of close(), and
\* whether the reply send loop ran to its end
NoTurn ==
    [ pending |-> FALSE, history |-> <<>>, transcribed |-> FALSE, chat |-> 0,
      via |-> "none", asked |-> "none", bye |-> "none", close |-> "none",
      reply_done |-> FALSE ]

\* the last media frame with audio that the receive loop handled
NotHeard == [ time |-> 0, speech |-> FALSE ]

NoSent == [ msg |-> "none", chunks |-> <<>> ]

\* the state of a connection that has just been accepted
Accepted ==
    /\ pc = "recv"
    /\ now = StartTime
    /\ inbox = <<>>
    /\ stream_id = "None"
    /\ audio_buffer = <<>>
    /\ is_speaking = FALSE
    /\ is_interrupted = FALSE
    /\ last_response_time = 0
    /\ last_audio_time = 0
    /\ last_silence_time = 0
    /\ user_is_speaking = FALSE
    /\ pending_goodbye = FALSE
    /\ conversation = << SystemMessage >>
    /\ wav_audio = <<>>
    /\ transcript = <<>>
    /\ ai_response = <<>>
    /\ mulaw_audio = 0
    /\ chunks_sent = 0
    /\ closed = FALSE
    /\ delivered = 0
    /\ turns = 0
    /\ in_flight = 0
    /\ utt_speech = 0
    /\ barge_in = FALSE
    /\ turn = NoTurn
    /\ sent = NoSent
    /\ heard = NotHeard

\* no byte has been given to the codec
NoCodec ==
    [ byte |-> 255, stage |-> "idle", sample |-> 0, encoded |-> 255, again |-> 0,
      packed |-> "none", energy |-> 0, wav |-> 0, wav_packed |-> "none" ]

\* the second connection: frames its carrier has sent and its coroutine has
\* not received, and frames its coroutine has handled
NoPeer == [ waiting |-> 0, handled |-> 0 ]

\* no tool call has been executed
NoLookup == [ arguments |-> << >>, stage |-> "idle", result |-> << >> ]

\* no entry for the caller; op, had and before record the last operation
\* on the entry and whether it existed, and its time-to-live, before it
NoSession ==
    [ exists |-> FALSE, step |-> "none", ttl |-> 0,
      op |-> "none", had |-> FALSE, before |-> 0 ]

\* week2/voice_ivr.py: the connections of the process and the values the
\* streamId field of their start events may have: the id the carrier gave
\* the stream, or "None" when the field is missing
Conns == { 1, 2 }
StreamIdOf(c) == IF c = 1 THEN "stream-1" ELSE "stream-2"
StreamKeys == { "None" } \cup { StreamIdOf(c) : c \in Conns }

\* ConversationState() and the locals of websocket_audio_handler after
\* accept(); messages and audio_buffer are lengths, chunks the playAudio
\* frames of the reply being sent
NewCall ==
    [ pc |-> "recv", stream_id |-> "None", messages |-> 1, audio_buffer |-> 0,
      tts_audio |-> 0, chunks |-> << >> ]

\* conversations = {}: no key has an entry (0); otherwise the entry of a key
\* is the ConversationState of connection 1 or 2
NoCalls ==
    [ conversations |-> [k \in StreamKeys |-> 0],
      conn |-> [c \in Conns |-> NewCall] ]

\* no transcript has been classified
NoConfirmation == [ transcript |-> << >>, stage |-> "idle", negative |-> FALSE ]

Init ==
    /\ Accepted
    /\ codec = NoCodec
    /\ peer = NoPeer
    /\ lookup = NoLookup
    /\ session = NoSession
    /\ voice = NoCalls
    /\ confirmation = NoConfirmation

----------------------------------------------------------------------------
(* Environment: the clock and the carrier                                  *)

\* The coroutine reads the clock when it handles a media frame and when a
\* playback ends; time that passes during a collaborator call is counted
\* at the next of these places.
Tick(max_ticks) ==
    /\ pc \in { "recv", "ask_send", "reply_send" }
    /\ now < StartTime + max_ticks
    /\ now' = now + 1
    /\ UNCHANGED << pc, inbox, stream_id, audio_buffer, is_speaking,
                    is_interrupted, last_response_time, last_audio_time,
                    last_silence_time, user_is_speaking, pending_goodbye,
                    conversation, wav_audio, transcript, ai_response,
                    mulaw_audio, chunks_sent, closed, delivered, history >>
    /\ UNCHANGED apart

HasAudio(f) == f.event = "media" /\ f.len > 0

\* The carrier may send frame f
CanSend(f, max_frames) ==
    /\ turns < MaxTurns
    /\ HasAudio(f) => delivered < max_frames

Count(f) == IF HasAudio(f) THEN 1 ELSE 0

\* The carrier sends a frame while the coroutine is busy with a turn; the
\* frame waits until receive_text() takes it.
Deliver(f, max_frames) ==
    /\ pc \notin { "recv", "ended" }
    /\ CanSend(f, max_frames)
    /\ Len(inbox) < MaxInbox
    /\ inbox' = Append(inbox, f)
    /\ delivered' = delivered + Count(f)
    /\ barge_in' = ( \/ barge_in
                     \/ /\ pc = "reply_send"
                        /\ is_speaking
                        /\ chunks_sent < NumChunks(mulaw_audio)
                        /\ f.event = "media"
                        /\ calculate_audio_energy(f) > ENERGY_THRESHOLD )
    /\ UNCHANGED << pc, now, stream_id, audio_buffer, is_speaking,
                    is_interrupted, last_response_time, last_audio_time,
                    last_silence_time, user_is_speaking, pending_goodbye,
                    conversation, wav_audio, transcript, ai_response,
                    mulaw_audio, chunks_sent, closed,
                    turns, in_flight, utt_speech, turn, sent, heard >>
    /\ UNCHANGED apart

----------------------------------------------------------------------------
(* Receive loop, lines 487-499 and 958-969                                 *)

\* variant: frames are also received while a reply is being streamed
ReceivingWhileSending(f, max_frames) ==
    /\ pc \in { "recv", "reply_send" }
    /\ \/ /\ inbox # <<>>
          /\ f = Head(inbox)
          /\ inbox' = Tail(inbox)
          /\ UNCHANGED delivered
       \/ /\ inbox = <<>>
          /\ CanSend(f, max_frames)
          /\ inbox' = inbox
          /\ delivered' = delivered + Count(f)

\* receive_text() returns frame f: the oldest waiting frame or, when none
\* waits, the frame the carrier sends next
Receiving(f, max_frames) ==
    /\ pc = "recv"
    /\ \/ /\ inbox # <<>>
          /\ f = Head(inbox)
          /\ inbox' = Tail(inbox)
          /\ UNCHANGED delivered
       \/ /\ inbox = <<>>
          /\ CanSend(f, max_frames)
          /\ inbox' = inbox
          /\ delivered' = delivered + Count(f)

\* receive_text() raises on a disconnect: break out of the loop
RecvDisconnect(f, max_frames) ==
    /\ f.event = "disconnect"
    /\ Receiving(f, max_frames)
    /\ pc' = "ended"
    /\ UNCHANGED << now, stream_id, audio_buffer, is_speaking, is_interrupted,
                    last_response_time, last_audio_time, last_silence_time,
                    user_is_speaking, pending_goodbye, conversation,
                    turnLocals, closed, history >>
    /\ UNCHANGED apart

\* json.loads(data) or base64.b64decode(payload) raises: the exception leaves
\* the while loop and is caught by the outer except of line 966
RecvMalformed(f, max_frames) ==
    /\ f.event \in { "bad_json", "bad_payload" }
    /\ Receiving(f, max_frames)
    /\ pc' = "ended"
    /\ UNCHANGED << now, stream_id, audio_buffer, is_speaking, is_interrupted,
                    last_response_time, last_audio_time, last_silence_time,
                    user_is_speaking, pending_goodbye, conversation,
                    turnLocals, closed, history >>
    /\ UNCHANGED apart

RecvStop(f, max_frames) ==
    /\ f.event = "stop"
    /\ Receiving(f, max_frames)
    /\ pc' = "ended"
    /\ UNCHANGED << now, stream_id, audio_buffer, is_speaking, is_interrupted,
                    last_response_time, last_audio_time, last_silence_time,
                    user_is_speaking, pending_goodbye, conversation,
                    turnLocals, closed, history >>
    /\ UNCHANGED apart

RecvDtmf(f, max_frames) ==
    /\ f.event = "dtmf"
    /\ Receiving(f, max_frames)
    /\ UNCHANGED << pc, now, stream_id, audio_buffer, is_speaking,
                    is_interrupted, last_response_time, last_audio_time,
                    last_silence_time, user_is_speaking, pending_goodbye,
                    conversation, turnLocals, closed, history >>
    /\ UNCHANGED apart

\* start event, lines 501-527: ids are stored, then the greeting is synthesized
RecvStart(f, max_frames) ==
    /\ f.event = "start"
    /\ Receiving(f, max_frames)
    /\ stream_id' = "stream"
    /\ pc' = "greet_tts"
    /\ UNCHANGED << now, audio_buffer, is_speaking, is_interrupted,
                    last_response_time, last_audio_time, last_silence_time,
                    user_is_speaking, pending_goodbye, conversation,
                    turnLocals, closed, history >>
    /\ UNCHANGED apart

\* lines 526-535: the greeting audio is never sent; an exception of the HTTP
\* call is caught only by the outer except
GreetTTS(outcome) ==
    /\ pc = "greet_tts"
    /\ pc' = IF outcome = "raise" THEN "ended" ELSE "recv"
    /\ UNCHANGED << delivered, now, inbox, stream_id, audio_buffer, is_speaking,
                    is_interrupted, last_response_time, last_audio_time,
                    last_silence_time, user_is_speaking, pending_goodbye,
                    conversation, turnLocals, closed, history >>
    /\ UNCHANGED apart

----------------------------------------------------------------------------
(* Media event, lines 537-621                                              *)

\* variant: any buffered audio counts as speech
has_speech_any(buf) == BufLen(buf) > 0

has_speech(buf) == BufLen(buf) >= MIN_AUDIO_LENGTH

\* variant: the ceiling itself is still accepted
buffer_too_large_strict(buf) == BufLen(buf) > BUFFER_CEILING

buffer_too_large(buf) == BufLen(buf) >= BUFFER_CEILING

should_process(buf, speaking, silence_duration) ==
    /\ has_speech(buf)
    /\ speaking
    /\ silence_duration >= SILENCE_DURATION_TO_PROCESS

\* the interruption branch, lines 552-556
Interrupts(energy) == is_speaking /\ energy > ENERGY_THRESHOLD

\* the cooldown branch, lines 559-562
InCooldown(current_time, energy) ==
    /\ current_time - last_response_time < MIN_PAUSE_AFTER_SPEECH
    /\ energy < ENERGY_THRESHOLD

RecvMedia(f, max_frames) ==
    /\ f.event = "media"
    /\ Receiving(f, max_frames)
    /\ LET audio_chunk  == [byte |-> f.byte, len |-> f.len]
           current_time == now
           energy       == calculate_audio_energy(audio_chunk)
           speech       == energy > ENERGY_THRESHOLD
           \* VAD, lines 565-584
           speaking1    == IF speech THEN TRUE ELSE user_is_speaking
           audio_time1  == IF speech THEN current_time ELSE last_audio_time
           silence1     == IF ~speech /\ user_is_speaking /\ last_silence_time = 0
                           THEN current_time ELSE last_silence_time
           pause        == current_time - silence1
           buffer1      == IF speech
                           THEN Extend(audio_buffer, audio_chunk)
                           ELSE IF user_is_speaking /\ pause < TRAILING_SILENCE
                                THEN Extend(audio_buffer, audio_chunk)
                                ELSE audio_buffer
           \* process decision, lines 588-597
           silence_duration == IF audio_time1 > 0 THEN current_time - audio_time1 ELSE 0
           flush        == \/ should_process(buffer1, speaking1, silence_duration)
                           \/ buffer_too_large(buffer1)
       IN
       IF f.len = 0
       THEN \* if payload: is false
            UNCHANGED << pc, audio_buffer, is_interrupted, last_audio_time,
                         last_silence_time, user_is_speaking, turnLocals,
                         turns, in_flight, utt_speech, turn, sent, heard >>
       ELSE IF Interrupts(energy)
       THEN /\ is_interrupted' = TRUE
            /\ heard' = [time |-> current_time, speech |-> speech]
            /\ UNCHANGED << pc, audio_buffer, last_audio_time, last_silence_time,
                            user_is_speaking, turnLocals,
                            turns, in_flight, utt_speech, turn, sent >>
       ELSE IF InCooldown(current_time, energy)
       THEN /\ audio_buffer' = <<>>
            /\ heard' = [time |-> current_time, speech |-> speech]
            /\ UNCHANGED << pc, is_interrupted, last_audio_time, last_silence_time,
                            user_is_speaking, turnLocals,
                            turns, in_flight, utt_speech, turn, sent >>
       ELSE /\ last_audio_time' = audio_time1
            /\ heard' = [time |-> current_time, speech |-> speech]
            /\ utt_speech' = IF flush THEN 0
                             ELSE IF speech THEN utt_speech + f.len ELSE utt_speech
            /\ IF flush
               THEN \* lines 605-621, up to the blocking transcription call
                    /\ user_is_speaking' = FALSE
                    /\ last_silence_time' = 0
                    /\ wav_audio' = DecodeAll(buffer1)
                    /\ audio_buffer' = <<>>
                    /\ pc' = "transcribe"
                    \* the values the previous turn left in these locals are
                    \* not read again: each is assigned before its next use
                    /\ transcript' = <<>>
                    /\ ai_response' = <<>>
                    /\ mulaw_audio' = 0
                    /\ chunks_sent' = 0
                    /\ turns' = turns + 1
                    /\ in_flight' = in_flight + 1
                    /\ turn' = [NoTurn EXCEPT !.pending = pending_goodbye,
                                              !.history = conversation]
                    /\ sent' = NoSent
               ELSE /\ user_is_speaking' = speaking1
                    /\ last_silence_time' = silence1
                    /\ audio_buffer' = buffer1
                    /\ UNCHANGED << pc, turnLocals, turns, in_flight, turn, sent >>
            /\ UNCHANGED is_interrupted
    /\ UNCHANGED << now, stream_id, is_speaking, last_response_time,
                    pending_goodbye, conversation, closed, barge_in >>
    /\ UNCHANGED apart

----------------------------------------------------------------------------
(* The turn: transcription, goodbye flow, dialogue, lines 624-857          *)

Message(r, c) == [role |-> r, content |-> c, tool_calls |-> <<>>]

\* lines 945-947
Trim(conv) ==
    IF Len(conv) > 12
    THEN << conv[1] >> \o SubSeq(conv, Len(conv) - 9, Len(conv))
    ELSE conv

\* (variant: the except of line 953 is outside the receive loop, so the end
\* of a turn is the end of the handler)
EndTurnLeavesLoop ==
    /\ pc' = "ended"
    /\ in_flight' = in_flight - 1

\* the turn is over: the coroutine is back at receive_text()
EndTurn ==
    /\ pc' = "recv"
    /\ in_flight' = in_flight - 1

\* pending_goodbye after the block of lines 652-709 when it does not close
\* the call: the follow-up branch of line 708 has cleared it
\* (variant: the follow-up branch leaves pending_goodbye as it was)
AfterGoodbyeCheckKept(pending) == pending

AfterGoodbyeCheck(pending) == IF pending THEN FALSE ELSE pending

\* line 667: the caller confirmed the goodbye
\* (variant: only a garbage transcript confirms)
ConfirmsGoodbyeOnGarbage(t) == is_garbage(t)

ConfirmsGoodbye(t) == is_no_response(t) \/ is_garbage(t)

\* line 712
ExitBranch(t, pending) == is_exit(t) /\ ~pending

\* line 754
\* (variant: every transcript that is not blank takes the normal path)
NormalBranchAnyText(t) == Strip(t) # <<>>

NormalBranch(t) == Strip(t) # <<>> /\ ~is_garbage(t)

\* the transcription service returns t (outcome "text") or raises
Transcribed(outcome, t) ==
    /\ pc = "transcribe"
    /\ wav_audio' = <<>>
    /\ IF outcome = "raise"
       THEN \* except of line 953
            /\ EndTurn
            /\ UNCHANGED << transcript, pending_goodbye, conversation, turn >>
       ELSE /\ transcript' = t
            /\ IF pending_goodbye /\ ConfirmsGoodbye(t)
               THEN /\ pc' = "bye_tts"
                    /\ turn' = [turn EXCEPT !.transcribed = TRUE]
                    /\ UNCHANGED << pending_goodbye, conversation, in_flight >>
               ELSE LET pending1 == AfterGoodbyeCheck(pending_goodbye) IN
                    IF ExitBranch(t, pending1)
                    THEN /\ pending_goodbye' = TRUE
                         /\ pc' = "ask_tts"
                         /\ turn' = [turn EXCEPT !.transcribed = TRUE, !.via = "phrase"]
                         /\ UNCHANGED << conversation, in_flight >>
                    ELSE IF NormalBranch(t)
                    THEN /\ pending_goodbye' = pending1
                         /\ conversation' = Append(conversation, Message("user", t))
                         /\ pc' = "chat"
                         /\ turn' = [turn EXCEPT !.transcribed = TRUE]
                         /\ UNCHANGED in_flight
                    ELSE /\ pending_goodbye' = pending1
                         /\ turn' = [turn EXCEPT !.transcribed = TRUE]
                         /\ EndTurn
                         /\ UNCHANGED conversation
    /\ UNCHANGED << delivered, now, inbox, stream_id, audio_buffer, is_speaking,
                    is_interrupted, last_response_time, last_audio_time,
                    last_silence_time, user_is_speaking, ai_response,
                    mulaw_audio, chunks_sent, closed,
                    turns, utt_speech, barge_in, sent, heard >>
    /\ UNCHANGED apart

\* execute_function, lines 199-220
execute_function(function_name) ==
    IF function_name = "search_knowledge" THEN <<"kb_answer">>
    ELSE IF function_name = "lookup_order" THEN <<"order_status">>
    ELSE IF function_name = "schedule_callback" THEN <<"callback_scheduled">>
    ELSE <<"could_not_process">>

ToolCall(name) == [name |-> name]

ToolCallLists ==
    { << ToolCall("lookup_order"), ToolCall("no_such_function") >> }

\* lines 775-793: the assistant message, then one tool message per call
WithToolResults(conv, calls) ==
    conv
    \o << [role |-> "assistant", content |-> <<>>, tool_calls |-> calls] >>
    \o [i \in 1..Len(calls) |-> Message("tool", execute_function(calls[i].name))]

\* line 809
\* (variant: the transcript is compared as transcribed, not stripped and
\* lower-cased)
is_simple_acknowledgment_raw(t) == InList(t, NOT_EXIT_PHRASES)

is_simple_acknowledgment(t) == InList(clean_transcript(t), NOT_EXIT_PHRASES)

\* lines 812-814: the reply that goes on to the sentinel test of line 816
AfterAckOverride(r, t) ==
    IF HasSentinel(r) /\ is_simple_acknowledgment(t) THEN RemoveSentinel(r) ELSE r

\* line 816
LlmExit(r, t) == HasSentinel(r) /\ ~is_simple_acknowledgment(t)

\* lines 805-857, from the reply text to the next synthesis request
HandleReply(r, conv) ==
    LET r1 == AfterAckOverride(r, transcript) IN
    /\ ai_response' = r1
    /\ IF LlmExit(r1, transcript)
       THEN /\ pending_goodbye' = TRUE
            /\ conversation' = conv
            /\ pc' = "ask_tts"
            /\ turn' = [turn EXCEPT !.chat = @ + 1, !.via = "llm"]
       ELSE /\ conversation' = Append(conv, Message("assistant", r1))
            /\ pc' = "reply_tts"
            /\ turn' = [turn EXCEPT !.chat = @ + 1]
            /\ UNCHANGED pending_goodbye
    /\ UNCHANGED in_flight

\* first chat completion, lines 761-803.  outcome: "raise", "none" (the
\* message has no content), "text" with reply r, "tools" with calls,
\* "bad_args" (json.loads of a call's arguments raises)
Chat(outcome, r, calls) ==
    /\ pc = "chat"
    /\ CASE outcome = "text" -> HandleReply(r, conversation)
         [] outcome = "tools" ->
                /\ conversation' = WithToolResults(conversation, calls)
                /\ pc' = "chat_final"
                /\ turn' = [turn EXCEPT !.chat = @ + 1]
                /\ UNCHANGED << ai_response, pending_goodbye, in_flight >>
         [] outcome = "bad_args" ->
                /\ conversation' = Append(conversation,
                       [role |-> "assistant", content |-> <<>>, tool_calls |-> calls])
                /\ EndTurn
                /\ turn' = [turn EXCEPT !.chat = @ + 1]
                /\ UNCHANGED << ai_response, pending_goodbye >>
         [] OTHER ->
                \* "raise", or "none": the test of line 812 raises TypeError
                /\ EndTurn
                /\ turn' = [turn EXCEPT !.chat = @ + 1]
                /\ UNCHANGED << ai_response, pending_goodbye, conversation >>
    /\ UNCHANGED << delivered, now, inbox, stream_id, audio_buffer, is_speaking,
                    is_interrupted, last_response_time, last_audio_time,
                    last_silence_time, user_is_speaking, wav_audio, transcript,
                    mulaw_audio, chunks_sent, closed,
                    turns, utt_speech, barge_in, sent, heard >>
    /\ UNCHANGED apart

\* second chat completion, lines 796-800
ChatFinal(outcome, r) ==
    /\ pc = "chat_final"
    /\ IF outcome = "text"
       THEN HandleReply(r, conversation)
       ELSE /\ EndTurn
            /\ turn' = [turn EXCEPT !.chat = @ + 1]
            /\ UNCHANGED << ai_response, pending_goodbye, conversation >>
    /\ UNCHANGED << delivered, now, inbox, stream_id, audio_buffer, is_speaking,
                    is_interrupted, last_response_time, last_audio_time,
                    last_silence_time, user_is_speaking, wav_audio, transcript,
                    mulaw_audio, chunks_sent, closed,
                    turns, utt_speech, barge_in, sent, heard >>
    /\ UNCHANGED apart

----------------------------------------------------------------------------
(* Synthesis and playback                                                  *)

\* outcomes of a synthesis request followed by the pydub conversion:
\* "ok" (status 200, audio converted), "status" (another status code),
\* "raise" (the HTTP call raises), "conv" (the conversion raises)
TtsOutcomes == { "ok", "status", "raise", "conv" }
SendOutcomes == { "ok", "raise" }

StartPlayback(msg, n) ==
    /\ mulaw_audio' = n
    /\ chunks_sent' = 0
    /\ sent' = [msg |-> msg, chunks |-> <<>>]

\* mulaw_audio[i:i + 640] with i the index of the loop, as the offset of the
\* slice and its length, and the sleep that follows the send, in milliseconds
Chunk(total, n, sleep) ==
    [ at |-> n * chunk_size, len |-> NextChunkLen(total, n), sleep |-> sleep ]

SendChunk ==
    /\ sent' = [sent EXCEPT !.chunks =
                    Append(@, Chunk(mulaw_audio, chunks_sent, SLEEP_AFTER_CHUNK))]
    /\ chunks_sent' = chunks_sent + 1

\* confirmation question, lines 717-752 and 820-855
AskTTS(outcome, n) ==
    /\ pc = "ask_tts"
    /\ IF outcome = "ok"
       THEN /\ is_speaking' = TRUE
            /\ audio_buffer' = <<>>
            /\ StartPlayback("ask", n)
            /\ pc' = "ask_send"
            /\ UNCHANGED << in_flight, turn >>
       ELSE \* "status": continue; otherwise the except of line 953
            /\ EndTurn
            /\ turn' = [turn EXCEPT !.asked = "failed"]
            /\ UNCHANGED << is_speaking, audio_buffer, mulaw_audio, chunks_sent, sent >>
    /\ UNCHANGED << delivered, now, inbox, stream_id, is_interrupted, last_response_time,
                    last_audio_time, last_silence_time, user_is_speaking,
                    pending_goodbye, conversation, wav_audio, transcript,
                    ai_response, closed, turns, utt_speech, barge_in, heard >>
    /\ UNCHANGED apart

AskSend(outcome) ==
    /\ pc = "ask_send"
    /\ chunks_sent < NumChunks(mulaw_audio)
    /\ IF outcome = "ok"
       THEN /\ SendChunk
            /\ UNCHANGED << pc, in_flight, turn >>
       ELSE \* send_text raises: the except of line 953, is_speaking stays set
            /\ EndTurn
            /\ turn' = [turn EXCEPT !.asked = "failed"]
            /\ UNCHANGED << chunks_sent, sent >>
    /\ UNCHANGED << delivered, now, inbox, stream_id, audio_buffer, is_speaking,
                    is_interrupted, last_response_time, last_audio_time,
                    last_silence_time, user_is_speaking, pending_goodbye,
                    conversation, wav_audio, transcript, ai_response,
                    mulaw_audio, closed, turns, utt_speech, barge_in, heard >>
    /\ UNCHANGED apart

\* lines 747-749 and 850-852, the loop of the question has ended
\* (variant: the end of the question is not stamped)
AskDoneNoStamp ==
    /\ pc = "ask_send"
    /\ chunks_sent = NumChunks(mulaw_audio)
    /\ is_speaking' = FALSE
    /\ audio_buffer' = <<>>
    /\ turn' = [turn EXCEPT !.asked = "sent"]
    /\ EndTurn
    /\ UNCHANGED << delivered, now, inbox, stream_id, is_interrupted, last_audio_time,
                    last_response_time, last_silence_time, user_is_speaking,
                    pending_goodbye, conversation, turnLocals, closed,
                    turns, utt_speech, barge_in, sent, heard >>
    /\ UNCHANGED apart

AskDone ==
    /\ pc = "ask_send"
    /\ chunks_sent = NumChunks(mulaw_audio)
    /\ is_speaking' = FALSE
    /\ last_response_time' = now
    /\ audio_buffer' = <<>>
    /\ turn' = [turn EXCEPT !.asked = "sent"]
    /\ EndTurn
    /\ UNCHANGED << delivered, now, inbox, stream_id, is_interrupted, last_audio_time,
                    last_silence_time, user_is_speaking, pending_goodbye,
                    conversation, turnLocals, closed,
                    turns, utt_speech, barge_in, sent, heard >>
    /\ UNCHANGED apart

\* closing message, lines 670-700: every failure is caught by the except of
\* line 699 and the handler goes on to close the socket
ByeTTS(outcome, n) ==
    /\ pc = "bye_tts"
    /\ IF outcome = "ok"
       THEN /\ StartPlayback("bye", n)
            /\ pc' = "bye_send"
            /\ UNCHANGED turn
       ELSE /\ pc' = "closing"
            /\ turn' = [turn EXCEPT !.bye = "failed"]
            /\ UNCHANGED << mulaw_audio, chunks_sent, sent >>
    /\ UNCHANGED << delivered, now, inbox, stream_id, audio_buffer, is_speaking,
                    is_interrupted, last_response_time, last_audio_time,
                    last_silence_time, user_is_speaking, pending_goodbye,
                    conversation, wav_audio, transcript, ai_response, closed,
                    turns, in_flight, utt_speech, barge_in, heard >>
    /\ UNCHANGED apart

ByeSend(outcome) ==
    /\ pc = "bye_send"
    /\ IF outcome = "ok"
       THEN /\ SendChunk
            /\ IF chunks_sent + 1 = NumChunks(mulaw_audio)
               THEN /\ pc' = "closing"
                    /\ turn' = [turn EXCEPT !.bye = "sent"]
               ELSE UNCHANGED << pc, turn >>
       ELSE /\ pc' = "closing"
            /\ turn' = [turn EXCEPT !.bye = "failed"]
            /\ UNCHANGED << chunks_sent, sent >>
    /\ UNCHANGED << delivered, now, inbox, stream_id, audio_buffer, is_speaking,
                    is_interrupted, last_response_time, last_audio_time,
                    last_silence_time, user_is_speaking, pending_goodbye,
                    conversation, wav_audio, transcript, ai_response,
                    mulaw_audio, closed,
                    turns, in_flight, utt_speech, barge_in, heard >>
    /\ UNCHANGED apart

\* lines 702-704: await websocket.close(); return
Close(outcome) ==
    /\ pc = "closing"
    /\ IF outcome = "ok"
       THEN /\ closed' = TRUE
            /\ pc' = "ended"
            /\ in_flight' = in_flight - 1
            /\ turn' = [turn EXCEPT !.close = "ok"]
       ELSE \* close() raises: the except of line 953, back to the loop
            /\ EndTurn
            /\ turn' = [turn EXCEPT !.close = "raise"]
            /\ UNCHANGED closed
    /\ UNCHANGED << delivered, now, inbox, stream_id, audio_buffer, is_speaking,
                    is_interrupted, last_response_time, last_audio_time,
                    last_silence_time, user_is_speaking, pending_goodbye,
                    conversation, turnLocals, turns, utt_speech, barge_in,
                    sent, heard >>
    /\ UNCHANGED apart

\* reply, lines 859-947
ReplyTTS(outcome, n) ==
    /\ pc = "reply_tts"
    /\ CASE outcome = "ok" ->
                /\ is_speaking' = TRUE
                /\ audio_buffer' = <<>>
                /\ is_interrupted' = FALSE
                /\ StartPlayback("reply", n)
                /\ pc' = "reply_send"
                /\ barge_in' = FALSE
                /\ UNCHANGED << conversation, in_flight >>
         [] outcome = "raise" ->
                \* the HTTP call raises: the except of line 953, no trim
                /\ EndTurn
                /\ UNCHANGED << is_speaking, audio_buffer, is_interrupted,
                                mulaw_audio, chunks_sent, sent, conversation,
                                barge_in >>
         [] OTHER ->
                \* another status code, or the conversion raises (line 940)
                /\ conversation' = Trim(conversation)
                /\ EndTurn
                /\ UNCHANGED << is_speaking, audio_buffer, is_interrupted,
                                mulaw_audio, chunks_sent, sent, barge_in >>
    /\ UNCHANGED << delivered, now, inbox, stream_id, last_response_time, last_audio_time,
                    last_silence_time, user_is_speaking, pending_goodbye,
                    wav_audio, transcript, ai_response, closed,
                    turns, utt_speech, turn, heard >>
    /\ UNCHANGED apart

\* one iteration of the send loop, lines 909-926
ReplySend(outcome) ==
    /\ pc = "reply_send"
    /\ ~is_interrupted
    /\ chunks_sent < NumChunks(mulaw_audio)
    /\ IF outcome = "ok"
       THEN /\ SendChunk
            /\ UNCHANGED << pc, in_flight, conversation >>
       ELSE \* send_text raises: caught at line 940, is_speaking stays set
            /\ conversation' = Trim(conversation)
            /\ EndTurn
            /\ UNCHANGED << chunks_sent, sent >>
    /\ UNCHANGED << delivered, now, inbox, stream_id, audio_buffer, is_speaking,
                    is_interrupted, last_response_time, last_audio_time,
                    last_silence_time, user_is_speaking, pending_goodbye,
                    wav_audio, transcript, ai_response, mulaw_audio, closed,
                    turns, utt_speech, barge_in, turn, heard >>
    /\ UNCHANGED apart

\* the loop has ended (all chunks sent, or break at line 913), lines 928-947
ReplyDone ==
    /\ pc = "reply_send"
    /\ is_interrupted \/ chunks_sent = NumChunks(mulaw_audio)
    /\ is_speaking' = FALSE
    /\ last_response_time' = now
    /\ audio_buffer' = <<>>
    /\ is_interrupted' = FALSE
    /\ user_is_speaking' = IF is_interrupted THEN TRUE ELSE user_is_speaking
    /\ conversation' = Trim(conversation)
    /\ turn' = [turn EXCEPT !.reply_done = TRUE]
    /\ EndTurn
    /\ UNCHANGED << delivered, now, inbox, stream_id, last_audio_time, last_silence_time,
                    pending_goodbye, turnLocals, closed,
                    turns, utt_speech, barge_in, sent, heard >>
    /\ UNCHANGED apart

----------------------------------------------------------------------------
(* Specification                                                           *)

ChatOutcomes == { "text", "tools", "bad_args", "none", "raise" }

\* The turn: every outcome of every collaborator call, all transcripts.  The
\* caller's audio is loud: a frame that fills the buffer at once and, while
\* the coroutine is busy, a short one.  With loud frames only, the turn reads
\* the clock just to stamp last_response_time, so the clock stands still.
TurnFrames ==
    { Frame("media", BYTE_LOUD, 2 * BigFrame) } \cup ControlFrames
TurnBusyFrames == { Frame("media", BYTE_LOUD, SmallFrame) }

Next ==
    \/ \E f \in TurnBusyFrames : Deliver(f, MaxTurnFrames)
    \/ \E f \in TurnFrames : RecvDisconnect(f, MaxTurnFrames)
    \/ \E f \in TurnFrames : RecvMalformed(f, MaxTurnFrames)
    \/ \E f \in TurnFrames : RecvStop(f, MaxTurnFrames)
    \/ \E f \in TurnFrames : RecvDtmf(f, MaxTurnFrames)
    \/ \E f \in TurnFrames : RecvStart(f, MaxTurnFrames)
    \/ \E o \in { "ok", "status", "raise" } : GreetTTS(o)
    \/ \E f \in TurnFrames : RecvMedia(f, MaxTurnFrames)
    \/ \E o \in { "text", "raise" }, t \in Transcripts : Transcribed(o, t)
    \/ \E o \in ChatOutcomes, r \in Replies, c \in ToolCallLists : Chat(o, r, c)
    \/ \E o \in { "text", "none", "raise" }, r \in Replies : ChatFinal(o, r)
    \/ \E o \in TtsOutcomes, n \in AudioLens : AskTTS(o, n)
    \/ \E o \in SendOutcomes : AskSend(o)
    \/ AskDone
    \/ \E o \in TtsOutcomes, n \in AudioLens : ByeTTS(o, n)
    \/ \E o \in SendOutcomes : ByeSend(o)
    \/ \E o \in { "ok", "raise" } : Close(o)
    \/ \E o \in TtsOutcomes, n \in AudioLens : ReplyTTS(o, n)
    \/ \E o \in SendOutcomes : ReplySend(o)
    \/ ReplyDone

Spec == Init /\ [][Next]_vars

\* Segmentation of caller audio: all payloads and the whole clock; every
\* utterance is a question that every collaborator answers.
VadFrames ==
    { Frame("media", b, n) : b \in { BYTE_QUIET, BYTE_SOFT }, n \in PayloadLens }
    \cup { Frame(e, 0, 0) : e \in { "start", "stop", "dtmf", "bad_json", "disconnect" } }
VadBusyFrames == { Frame("media", b, SmallFrame) : b \in { BYTE_QUIET, BYTE_SOFT } }
VadTranscripts == { T_HELLO }

NextVad ==
    \/ Tick(MaxTicks)
    \/ \E f \in VadBusyFrames : Deliver(f, MaxFrames)
    \/ \E f \in VadFrames : RecvDisconnect(f, MaxFrames)
    \/ \E f \in VadFrames : RecvMalformed(f, MaxFrames)
    \/ \E f \in VadFrames : RecvStop(f, MaxFrames)
    \/ \E f \in VadFrames : RecvDtmf(f, MaxFrames)
    \/ \E f \in VadFrames : RecvStart(f, MaxFrames)
    \/ \E o \in { "ok" } : GreetTTS(o)
    \/ \E f \in VadFrames : RecvMedia(f, MaxFrames)
    \/ \E o \in { "text" }, t \in VadTranscripts : Transcribed(o, t)
    \/ \E o \in { "text" }, r \in { R_ANSWER }, c \in { << >> } : Chat(o, r, c)
    \/ \E o \in { "ok" }, n \in AudioLens : ReplyTTS(o, n)
    \/ \E o \in { "ok" } : ReplySend(o)
    \/ ReplyDone

SpecVad == Init /\ [][NextVad]_vars

\* Growth of the conversation: every utterance is a question; the engine
\* answers, asks for MaxToolCalls order lookups, signals exit intent, or
\* fails, and the synthesis of the reply may fail.
HistoryFrames == { Frame("media", BYTE_LOUD, 2 * BigFrame) }
ManyToolCalls == [i \in 1..MaxToolCalls |-> ToolCall("lookup_order")]

NextHistory ==
    \/ \E f \in HistoryFrames : RecvMedia(f, MaxTurnFrames)
    \/ \E o \in { "text" }, t \in { T_HELLO } : Transcribed(o, t)
    \/ \E o \in { "text", "tools", "raise" }, r \in { R_ANSWER, R_EXIT },
          c \in { ManyToolCalls } : Chat(o, r, c)
    \/ \E o \in { "text", "raise" }, r \in { R_ANSWER, R_EXIT } : ChatFinal(o, r)
    \/ \E o \in { "ok" }, n \in AudioLens : AskTTS(o, n)
    \/ \E o \in { "ok" } : AskSend(o)
    \/ AskDone
    \/ \E o \in { "ok", "status", "raise" }, n \in AudioLens : ReplyTTS(o, n)
    \/ \E o \in { "ok" } : ReplySend(o)
    \/ ReplyDone

SpecHistory == Init /\ [][NextHistory]_vars

----------------------------------------------------------------------------
(* Knowledge base and its search, lines 35-135                             *)

\* KNOWLEDGE_BASE in the order of the dict; an answer is one token
KNOWLEDGE_BASE ==
    << [ topic |-> "business_hours",
         keywords |->
           << <<"h","o","u","r","s">>,
              <<"o","p","e","n">>,
              <<"c","l","o","s","e">>,
              <<"t","i","m","i","n","g">>,
              <<"w","h","e","n"," ","a","r","e"," ","y","o","u"," ","o","p","e","n">>,
              <<"w","o","r","k","i","n","g"," ","h","o","u","r","s">> >>,
         answer |-> <<"We're open Monday through Friday from 9 AM to 6 PM, and Saturday from 10 AM to 4 PM. We're closed on Sundays.">> ],
       [ topic |-> "location",
         keywords |->
           << <<"a","d","d","r","e","s","s">>,
              <<"l","o","c","a","t","i","o","n">>,
              <<"w","h","e","r","e">>,
              <<"o","f","f","i","c","e">>,
              <<"v","i","s","i","t">>,
              <<"d","i","r","e","c","t","i","o","n","s">> >>,
         answer |-> <<"Our office is located at 123 Tech Street, Koramangala, Bangalore. We're near the Metro station.">> ],
       [ topic |-> "contact",
         keywords |->
           << <<"c","o","n","t","a","c","t">>,
              <<"e","m","a","i","l">>,
              <<"p","h","o","n","e">>,
              <<"r","e","a","c","h">>,
              <<"c","a","l","l">>,
              <<"s","u","p","p","o","r","t"," ","e","m","a","i","l">> >>,
         answer |-> <<"You can reach us by email at support@techcorp.com or call our support line at 1800-123-4567.">> ],
       [ topic |-> "pricing",
         keywords |->
           << <<"p","r","i","c","e">>,
              <<"c","o","s","t">>,
              <<"p","r","i","c","i","n","g">>,
              <<"p","l","a","n","s">>,
              <<"s","u","b","s","c","r","i","p","t","i","o","n">>,
              <<"h","o","w"," ","m","u","c","h">>,
              <<"r","a","t","e","s">> >>,
         answer |-> <<"We have three plans: Basic at $9.99 per month with 10GB storage, Pro at $19.99 per month with 100GB storage, and Enterprise with custom pricing for unlimited storage.">> ],
       [ topic |-> "basic_plan",
         keywords |->
           << <<"b","a","s","i","c"," ","p","l","a","n">>,
              <<"s","t","a","r","t","e","r">>,
              <<"c","h","e","a","p","e","s","t">>,
              <<"e","n","t","r","y"," ","l","e","v","e","l">> >>,
         answer |-> <<"Our Basic plan is $9.99 per month. It includes 10GB storage, email support, and access to core features. Great for individuals.">> ],
       [ topic |-> "pro_plan",
         keywords |->
           << <<"p","r","o"," ","p","l","a","n">>,
              <<"p","r","o","f","e","s","s","i","o","n","a","l">>,
              <<"p","r","e","m","i","u","m">> >>,
         answer |-> <<"Our Pro plan is $19.99 per month. It includes 100GB storage, priority support, advanced analytics, and API access. Perfect for small teams.">> ],
       [ topic |-> "enterprise_plan",
         keywords |->
           << <<"e","n","t","e","r","p","r","i","s","e">>,
              <<"b","u","s","i","n","e","s","s">>,
              <<"c","o","r","p","o","r","a","t","e">>,
              <<"c","u","s","t","o","m">> >>,
         answer |-> <<"Our Enterprise plan has custom pricing based on your needs. It includes unlimited storage, dedicated support, custom integrations, and SLA guarantees. Contact sales for a quote.">> ],
       [ topic |-> "return_policy",
         keywords |->
           << <<"r","e","t","u","r","n">>,
              <<"r","e","f","u","n","d">>,
              <<"m","o","n","e","y"," ","b","a","c","k">>,
              <<"c","a","n","c","e","l">>,
              <<"c","a","n","c","e","l","l","a","t","i","o","n">> >>,
         answer |-> <<"We offer a 30-day money-back guarantee. If you're not satisfied, contact support within 30 days of purchase for a full refund. No questions asked.">> ],
       [ topic |-> "shipping",
         keywords |->
           << <<"s","h","i","p","p","i","n","g">>,
              <<"d","e","l","i","v","e","r","y">>,
              <<"h","o","w"," ","l","o","n","g">>,
              <<"s","h","i","p"," ","t","i","m","e">>,
              <<"w","h","e","n"," ","w","i","l","l"," ","i"," ","g","e","t">> >>,
         answer |-> <<"Standard shipping takes 3 to 5 business days. Express shipping is available for 1 to 2 day delivery at an additional cost.">> ],
       [ topic |-> "warranty",
         keywords |->
           << <<"w","a","r","r","a","n","t","y">>,
              <<"g","u","a","r","a","n","t","e","e">>,
              <<"b","r","o","k","e","n">>,
              <<"d","e","f","e","c","t">>,
              <<"r","e","p","a","i","r">> >>,
         answer |-> <<"All our products come with a 1-year warranty covering manufacturing defects. Extended warranty options are available at checkout.">> ],
       [ topic |-> "reset_password",
         keywords |->
           << <<"p","a","s","s","w","o","r","d">>,
              <<"r","e","s","e","t">>,
              <<"f","o","r","g","o","t">>,
              <<"l","o","g","i","n">>,
              <<"c","a","n","'","t"," ","l","o","g","i","n">>,
              <<"l","o","c","k","e","d"," ","o","u","t">> >>,
         answer |-> <<"To reset your password, go to the login page and click 'Forgot Password'. Enter your email and we'll send you a reset link. The link expires in 24 hours.">> ],
       [ topic |-> "account_setup",
         keywords |->
           << <<"s","e","t","u","p">>,
              <<"g","e","t"," ","s","t","a","r","t","e","d">>,
              <<"c","r","e","a","t","e"," ","a","c","c","o","u","n","t">>,
              <<"s","i","g","n"," ","u","p">>,
              <<"r","e","g","i","s","t","e","r">> >>,
         answer |-> <<"To create an account, visit our website and click 'Sign Up'. Enter your email, create a password, and verify your email. Setup takes less than 2 minutes.">> ],
       [ topic |-> "technical_issues",
         keywords |->
           << <<"n","o","t"," ","w","o","r","k","i","n","g">>,
              <<"b","u","g">>,
              <<"e","r","r","o","r">>,
              <<"p","r","o","b","l","e","m">>,
              <<"i","s","s","u","e">>,
              <<"b","r","o","k","e","n">>,
              <<"h","e","l","p">> >>,
         answer |-> <<"I'm sorry you're experiencing issues. For technical problems, please email support@techcorp.com with details of the issue, or call our tech support at 1800-123-4567 option 2.">> ],
       [ topic |-> "order_status",
         keywords |->
           << <<"o","r","d","e","r"," ","s","t","a","t","u","s">>,
              <<"t","r","a","c","k">>,
              <<"w","h","e","r","e"," ","i","s"," ","m","y"," ","o","r","d","e","r">>,
              <<"o","r","d","e","r"," ","n","u","m","b","e","r">>,
              <<"t","r","a","c","k","i","n","g">> >>,
         answer |-> <<"To check your order status, visit our website and go to 'My Orders', or give me your order number and I can look it up for you.">> ],
       [ topic |-> "bulk_discount",
         keywords |->
           << <<"b","u","l","k">>,
              <<"d","i","s","c","o","u","n","t">>,
              <<"w","h","o","l","e","s","a","l","e">>,
              <<"v","o","l","u","m","e">>,
              <<"m","a","n","y"," ","l","i","c","e","n","s","e","s">> >>,
         answer |-> <<"Yes, we offer bulk discounts for orders of 10 or more licenses. Contact our sales team at sales@techcorp.com for a custom quote.">> ],
       [ topic |-> "payment_methods",
         keywords |->
           << <<"p","a","y","m","e","n","t">>,
              <<"p","a","y">>,
              <<"c","r","e","d","i","t"," ","c","a","r","d">>,
              <<"p","a","y","p","a","l">>,
              <<"h","o","w"," ","t","o"," ","p","a","y">> >>,
         answer |-> <<"We accept all major credit cards, PayPal, and bank transfers for annual plans. Enterprise customers can also pay by invoice.">> ] >>

\* the sum of len(keyword) over the keywords found in query_lower
RECURSIVE Score(_, _)
Score(keywords, query_lower) ==
    IF keywords = << >> THEN 0
    ELSE ( IF Contains(query_lower, Head(keywords)) THEN Len(Head(keywords)) ELSE 0 )
         + Score(Tail(keywords), query_lower)

\* None
NoAnswer == << >>

\* the loop over KNOWLEDGE_BASE.items(): a topic replaces the best match
\* only when it scores more
RECURSIVE BestMatch(_, _, _, _)
BestMatch(kb, query_lower, best_match, best_score) ==
    IF kb = << >> THEN best_match
    ELSE LET score == Score(Head(kb).keywords, query_lower) IN
         IF score > best_score
         THEN BestMatch(Tail(kb), query_lower, Head(kb).answer, score)
         ELSE BestMatch(Tail(kb), query_lower, best_match, best_score)

search_knowledge_base(query) == BestMatch(KNOWLEDGE_BASE, Lower(query), NoAnswer, 0)

\* the answer of a topic
Answer(topic) ==
    LET i == CHOOSE n \in 1..Len(KNOWLEDGE_BASE) : KNOWLEDGE_BASE[n].topic = topic
    IN  KNOWLEDGE_BASE[i].answer

\* execute_function("search_knowledge", arguments), lines 201-206
search_knowledge(arguments) ==
    LET query  == IF "query" \in DOMAIN arguments THEN arguments.query ELSE << >>
        result == search_knowledge_base(query)
    IN  IF result # NoAnswer THEN result
        ELSE <<"I don't have specific information about that in my knowledge base. Would you like me to connect you with a human agent?">>

\* queries of the search_knowledge tool: a way of asking and a subject
Q_WHAT_ARE_YOUR == <<"w","h","a","t"," ","a","r","e"," ","y","o","u","r"," ">>
Q_BUSINESS_HOURS == <<"b","u","s","i","n","e","s","s"," ","h","o","u","r","s">>

QueryPrefixes ==
    { << >>,
      Q_WHAT_ARE_YOUR,
      <<"W","h","a","t"," ","a","r","e"," ","y","o","u","r"," ">>,
      <<"t","e","l","l"," ","m","e"," ","y","o","u","r"," ">>,
      <<"h","e","l","p"," ","w","i","t","h"," ">> }

QuerySubjects ==
    { Q_BUSINESS_HOURS,
      <<"h","o","u","r","s">>,
      <<"o","p","e","n","i","n","g"," ","h","o","u","r","s">>,
      <<"w","o","r","k","i","n","g"," ","h","o","u","r","s">>,
      <<"o","f","f","i","c","e"," ","a","d","d","r","e","s","s">>,
      <<"e","n","t","e","r","p","r","i","s","e"," ","p","l","a","n">>,
      <<"p","r","i","c","i","n","g">>,
      <<"r","e","f","u","n","d"," ","p","o","l","i","c","y">>,
      <<"p","a","s","s","w","o","r","d">>,
      <<"o","r","d","e","r"," ","s","t","a","t","u","s">>,
      <<"p","a","y","m","e","n","t"," ","m","e","t","h","o","d","s">>,
      <<"w","e","a","t","h","e","r">>,
      << >> }

Queries == { p \o q : p \in QueryPrefixes, q \in QuerySubjects }

\* the arguments of the tool call: {"query": ...}, or {} when the engine
\* left the query out
SearchArguments == { [query |-> q] : q \in Queries } \cup { << >> }

InitSearch ==
    /\ Accepted
    /\ codec = NoCodec
    /\ peer = NoPeer
    /\ lookup \in { [NoLookup EXCEPT !.arguments = a] : a \in SearchArguments }
    /\ session = NoSession
    /\ voice = NoCalls
    /\ confirmation = NoConfirmation

ExecuteSearchKnowledge ==
    /\ lookup.stage = "idle"
    /\ lookup' = [lookup EXCEPT !.stage = "done",
                                !.result = search_knowledge(lookup.arguments)]
    /\ UNCHANGED << connection, codec, peer, session, voice, confirmation >>

NextSearch == ExecuteSearchKnowledge

SpecSearch == InitSearch /\ [][NextSearch]_vars

----------------------------------------------------------------------------
(* The codec                                                               *)

\* The codec alone: a mu-law byte is decoded, the sample is encoded, and
\* the resulting byte is decoded again.
MulawBytes == 0..255

InitCodec ==
    /\ Accepted
    /\ peer = NoPeer
    /\ lookup = NoLookup
    /\ session = NoSession
    /\ voice = NoCalls
    /\ confirmation = NoConfirmation
    /\ codec \in { [NoCodec EXCEPT !.byte = b] : b \in MulawBytes }

Decode ==
    /\ codec.stage = "idle"
    /\ codec' = [codec EXCEPT !.stage = "decoded",
                              !.sample = mulaw_decode(codec.byte)]
    /\ UNCHANGED << connection, peer, lookup, session, voice, confirmation >>

Encode ==
    /\ codec.stage = "decoded"
    /\ codec' = [codec EXCEPT !.stage = "encoded",
                              !.encoded = pcm_to_mulaw(codec.sample)]
    /\ UNCHANGED << connection, peer, lookup, session, voice, confirmation >>

DecodeAgain ==
    /\ codec.stage = "encoded"
    /\ codec' = [codec EXCEPT !.stage = "round_trip",
                              !.again = mulaw_decode(codec.encoded)]
    /\ UNCHANGED << connection, peer, lookup, session, voice, confirmation >>

NextCodec ==
    \/ Decode
    \/ Encode
    \/ DecodeAgain

SpecCodec == InitCodec /\ [][NextCodec]_vars

\* The decoders alone: the same byte goes through mulaw_decode and the WAV
\* creation of lines 609-619, through the decode of calculate_audio_energy,
\* and through mulaw_to_wav of week2/voice_ivr.py.
WavCreation ==
    /\ codec.stage = "decoded"
    /\ codec' = [codec EXCEPT !.stage = "packed",
                              !.packed = pack_h(codec.sample)]
    /\ UNCHANGED << connection, peer, lookup, session, voice, confirmation >>

EnergyDecode ==
    /\ codec.stage = "packed"
    /\ codec' = [codec EXCEPT !.stage = "energy",
                              !.energy = energy_sample(codec.byte)]
    /\ UNCHANGED << connection, peer, lookup, session, voice, confirmation >>

mulaw_to_wav ==
    /\ codec.stage = "energy"
    /\ LET pcm == decode_mulaw(codec.byte) IN
       codec' = [codec EXCEPT !.stage = "wav",
                              !.wav = pcm,
                              !.wav_packed = pack_h(pcm)]
    /\ UNCHANGED << connection, peer, lookup, session, voice, confirmation >>

NextDecoders ==
    \/ Decode
    \/ WavCreation
    \/ EnergyDecode
    \/ mulaw_to_wav

SpecDecoders == InitCodec /\ [][NextDecoders]_vars

\* One utterance on a fresh connection: the start event, then frames of one
\* tick of audio each, one frame per tick: 1.5 s of speech, then the whole
\* frames of 1.3 s of silence.  A frame is handled when it is due, except
\* that the frames that fall due while the greeting is being synthesized
\* are handled, one after the other, when that request has returned.
SpeechFrames == 1500 \div MsPerTick
SilentFrames == 1300 \div MsPerTick
StreamLen == SpeechFrames + SilentFrames
\* 8000 one-byte samples per second
StreamFrameLen == 8 * MsPerTick

\* the k-th frame of the stream with payload byte b
StreamFrame(k, b) ==
    IF \/ ( k <= SpeechFrames /\ b \in { BYTE_SOFT, BYTE_LOUD } )
       \/ ( k > SpeechFrames /\ b \in { BYTE_SILENCE, BYTE_QUIET } )
    THEN { Frame("media", b, StreamFrameLen) }
    ELSE { }

\* the carrier has sent a frame that the coroutine has not received
FrameDue == delivered < StreamLen /\ now >= StartTime + delivered + 1

StreamStart ==
    /\ stream_id = "None"
    /\ \E f \in { Frame("start", 0, 0) } : RecvStart(f, StreamLen)

\* time passes while no frame waits; the time the synthesis of the greeting
\* took is counted when it has returned, before the first frame is handled
StreamTick ==
    /\ pc = "recv"
    /\ stream_id # "None"
    /\ delivered < StreamLen
    /\ FrameDue => delivered = 0
    /\ Tick(StreamLen + MaxLate)

StreamMedia ==
    /\ stream_id # "None"
    /\ inbox = <<>>
    /\ FrameDue
    /\ \E b \in PayloadBytes : \E f \in StreamFrame(delivered + 1, b) :
          RecvMedia(f, StreamLen)

NextStream ==
    \/ StreamStart
    \/ \E o \in { "ok", "status", "raise" } : GreetTTS(o)
    \/ StreamTick
    \/ StreamMedia
    \/ \E o \in { "text" }, t \in { T_HELLO } : Transcribed(o, t)
    \/ \E o \in { "text" }, r \in { R_ANSWER }, c \in { << >> } : Chat(o, r, c)
    \/ \E o \in { "ok" }, n \in AudioLens : ReplyTTS(o, n)
    \/ \E o \in { "ok" } : ReplySend(o)
    \/ ReplyDone

SpecStream == Init /\ [][NextStream]_vars

\* Two connections on one event loop.  The coroutine of this connection
\* gives up the loop where it awaits: receive_text, the HTTP requests of the
\* synthesis, send_text, sleep, close.  The transcription and the chat
\* completions are calls of the synchronous client (lines 631, 761, 796):
\* the coroutine keeps the loop until they return.
Suspended == pc \notin { "transcribe", "chat", "chat_final" }

PeerDeliver ==
    /\ peer.waiting + peer.handled < MaxPeerFrames
    /\ peer' = [peer EXCEPT !.waiting = @ + 1]
    /\ UNCHANGED << connection, codec, lookup, session, voice, confirmation >>

\* the coroutine of the second connection is resumed at its receive_text()
\* and handles a frame
PeerHandles ==
    /\ Suspended
    /\ peer.waiting > 0
    /\ peer' = [peer EXCEPT !.waiting = @ - 1, !.handled = @ + 1]
    /\ UNCHANGED << connection, codec, lookup, session, voice, confirmation >>

NextLoop ==
    \/ PeerDeliver
    \/ PeerHandles
    \/ \E f \in HistoryFrames : RecvMedia(f, MaxTurnFrames)
    \/ \E o \in { "text", "raise" }, t \in { T_HELLO } : Transcribed(o, t)
    \/ \E o \in { "text", "tools", "raise" }, r \in { R_ANSWER },
          c \in ToolCallLists : Chat(o, r, c)
    \/ \E o \in { "text", "raise" }, r \in { R_ANSWER } : ChatFinal(o, r)
    \/ \E o \in { "ok", "raise" }, n \in AudioLens : ReplyTTS(o, n)
    \/ \E o \in { "ok" } : ReplySend(o)
    \/ ReplyDone

SpecLoop == Init /\ [][NextLoop]_vars

\* Playback and the caller's audio around it: the clock, a speech frame that
\* fills the buffer, short frames of speech and of silence, the question and
\* the reply, and sends that fail while a message is streamed.
PlaybackFrames ==
    { Frame("media", BYTE_SOFT, 2 * BigFrame),
      Frame("media", BYTE_SOFT, SmallFrame),
      Frame("media", BYTE_QUIET, SmallFrame) }

NextPlayback ==
    \/ Tick(MaxTicks)
    \/ \E f \in VadBusyFrames : Deliver(f, MaxFrames)
    \/ \E f \in PlaybackFrames : RecvMedia(f, MaxFrames)
    \/ \E o \in { "text" }, t \in { T_HELLO, T_BYE } : Transcribed(o, t)
    \/ \E o \in { "text" }, r \in { R_ANSWER }, c \in { << >> } : Chat(o, r, c)
    \/ \E o \in { "ok" }, n \in AudioLens : AskTTS(o, n)
    \/ \E o \in SendOutcomes : AskSend(o)
    \/ AskDone
    \/ \E o \in { "ok" }, n \in AudioLens : ReplyTTS(o, n)
    \/ \E o \in SendOutcomes : ReplySend(o)
    \/ ReplyDone

SpecPlayback == Init /\ [][NextPlayback]_vars

----------------------------------------------------------------------------
(* Session cache, week1/ivr.py lines 18-40 and week1/app.py lines 241-271  *)

SESSION_TTL == 1800

Steps == { "greeting", "routed_sales", "routed_support" }

\* the time-to-live that update_session writes, lines 258-263
\* (variant: update_session writes the full SESSION_TTL, as save_session does)
RewrittenTtlFull(ttl) == SESSION_TTL

RewrittenTtl(ttl) == IF ttl > 0 THEN ttl ELSE SESSION_TTL

\* save_session(caller_id, step) with a configured redis_client: the entry
\* is created or its step replaced, and setex writes it with SESSION_TTL
SaveSession(step) ==
    /\ session' = [ exists |-> TRUE, step |-> step, ttl |-> SESSION_TTL,
                    op |-> "save", had |-> session.exists,
                    before |-> session.ttl ]
    /\ UNCHANGED << connection, codec, peer, lookup, voice, confirmation >>

\* /update-session/<caller_id>/<step>: 404 when there is no entry, else
\* the step is replaced and the entry written with RewrittenTtl
UpdateSession(step) ==
    /\ IF ~session.exists
       THEN session' = [session EXCEPT !.op = "not_found", !.had = FALSE,
                                       !.before = session.ttl]
       ELSE session' = [ exists |-> TRUE, step |-> step,
                         ttl |-> RewrittenTtl(session.ttl),
                         op |-> "update", had |-> TRUE,
                         before |-> session.ttl ]
    /\ UNCHANGED << connection, codec, peer, lookup, voice, confirmation >>

\* ElapseSeconds pass: what redis_client.ttl(key) returns goes down; it is 0
\* during the last second of the entry, after which the entry is gone
Elapse ==
    /\ session.exists
    /\ IF session.ttl = 0
       THEN session' = [NoSession EXCEPT !.op = "expired"]
       ELSE session' = [session EXCEPT
                           !.ttl = IF @ > ElapseSeconds THEN @ - ElapseSeconds ELSE 0,
                           !.op = "elapse", !.had = TRUE, !.before = session.ttl]
    /\ UNCHANGED << connection, codec, peer, lookup, voice, confirmation >>

NextSession ==
    \/ \E step \in Steps : SaveSession(step)
    \/ \E step \in Steps : UpdateSession(step)
    \/ Elapse

SpecSession == Init /\ [][NextSession]_vars

----------------------------------------------------------------------------
(* week2/voice_ivr.py: websocket_audio_handler and process_audio_chunk     *)

\* line 127: bytes of buffered audio at which the audio is processed
VOICE_BUFFER_FULL == 16000
\* asyncio.sleep(0.08) after a chunk, line 321, in milliseconds
VOICE_SLEEP_AFTER_CHUNK == 80

\* payload sizes of the media frames: none, less than a full buffer, more
VoicePayloads == { 0, BigFrame \div 4, BigFrame }

\* lines 196-197, on the length of state.messages
TrimLen(n) == IF n > 12 THEN 11 ELSE n

\* del conversations[stream_id]
Without(conversations, sid) == [conversations EXCEPT ![sid] = 0]

\* start event, lines 109-114: an entry of the same key is replaced
VoiceStart(c, sid) ==
    /\ voice.conn[c].pc = "recv"
    /\ voice' = [voice EXCEPT !.conn[c].stream_id = sid,
                              !.conversations[sid] = c]
    /\ UNCHANGED << connection, codec, peer, lookup, session, confirmation >>

\* media event, lines 116-128, and process_audio_chunk up to its first
\* await, lines 161-199: the transcription and the chat completion are calls
\* of the synchronous client, no other coroutine runs before they return.
\* outcome: "stt_raise", "no_speech", "chat_raise", "ok"
VoiceMedia(c, n, outcome) ==
    /\ voice.conn[c].pc = "recv"
    /\ LET call     == voice.conn[c]
           buffered == call.audio_buffer + n
       IN  IF buffered < VOICE_BUFFER_FULL
           THEN voice' = [voice EXCEPT !.conn[c].audio_buffer = buffered]
           ELSE CASE outcome \in { "stt_raise", "no_speech" } ->
                       voice' = [voice EXCEPT !.conn[c].audio_buffer = 0]
                  [] outcome = "chat_raise" ->
                       voice' = [voice EXCEPT !.conn[c].audio_buffer = 0,
                                              !.conn[c].messages = call.messages + 1]
                  [] OTHER ->
                       voice' = [voice EXCEPT !.conn[c].audio_buffer = 0,
                                              !.conn[c].messages = TrimLen(call.messages + 2),
                                              !.conn[c].pc = "tts"]
    /\ UNCHANGED << connection, codec, peer, lookup, session, confirmation >>

\* text_to_speech_mulaw, lines 202-206: n bytes of audio, or nothing (None,
\* b""), or the request raises and the except of line 208 catches it
VoiceTTS(c, outcome, n) ==
    /\ voice.conn[c].pc = "tts"
    /\ IF outcome = "ok" /\ n > 0
       THEN voice' = [voice EXCEPT !.conn[c].pc = "send",
                                   !.conn[c].tts_audio = n,
                                   !.conn[c].chunks = << >>]
       ELSE voice' = [voice EXCEPT !.conn[c].pc = "recv"]
    /\ UNCHANGED << connection, codec, peer, lookup, session, confirmation >>

\* send_audio_to_plivo, lines 305-321: one iteration of the loop
VoiceSend(c, outcome) ==
    /\ voice.conn[c].pc = "send"
    /\ LET call == voice.conn[c]
           n    == Len(call.chunks)
       IN  IF outcome = "ok"
           THEN voice' = [voice EXCEPT
                   !.conn[c].chunks =
                       Append(@, Chunk(call.tts_audio, n, VOICE_SLEEP_AFTER_CHUNK)),
                   !.conn[c].pc =
                       IF n + 1 = NumChunks(call.tts_audio) THEN "recv" ELSE "send"]
           ELSE \* send_text raises: the except of line 208
                voice' = [voice EXCEPT !.conn[c].pc = "recv"]
    /\ UNCHANGED << connection, codec, peer, lookup, session, confirmation >>

\* stop event, lines 130-135, then the finally of line 144
VoiceStop(c) ==
    /\ voice.conn[c].pc = "recv"
    /\ LET sid == voice.conn[c].stream_id IN
       voice' = [voice EXCEPT
                   !.conn[c].pc = "ended",
                   !.conversations =
                       IF voice.conversations[sid] # 0
                       THEN Without(@, sid) ELSE @]
    /\ UNCHANGED << connection, codec, peer, lookup, session, confirmation >>

\* receive_text, json.loads or b64decode raises: the except of line 142,
\* then the finally:  if stream_id and stream_id in conversations
VoiceError(c) ==
    /\ voice.conn[c].pc = "recv"
    /\ LET sid == voice.conn[c].stream_id IN
       voice' = [voice EXCEPT
                   !.conn[c].pc = "ended",
                   !.conversations =
                       IF sid # "None" /\ voice.conversations[sid] # 0
                       THEN Without(@, sid) ELSE @]
    /\ UNCHANGED << connection, codec, peer, lookup, session, confirmation >>

\* Two calls: the first has a conversation, the carrier of the second sends
\* only its start and stop events, or disconnects.
NextVoice ==
    \/ \E c \in Conns : \E sid \in { "None", StreamIdOf(c) } : VoiceStart(c, sid)
    \/ /\ voice.conn[1].messages <= MaxMessages
       /\ \E n \in VoicePayloads,
             o \in { "stt_raise", "no_speech", "chat_raise", "ok" } : VoiceMedia(1, n, o)
    \/ \E o \in { "ok", "raise" }, n \in { 0 } \cup AudioLens : VoiceTTS(1, o, n)
    \/ \E o \in SendOutcomes : VoiceSend(1, o)
    \/ \E c \in Conns : VoiceStop(c)
    \/ \E c \in Conns : VoiceError(c)

SpecVoice == Init /\ [][NextVoice]_vars

----------------------------------------------------------------------------
(* Classification of the answer to the confirmation question, alone        *)

\* answers: an opening, a phrase or a word, an ending
AnswerOpenings ==
    { << >>,
      <<"o","h"," ">>,
      <<"S","o"," ">> }

AnswerWords ==
    { <<"n","o">>,
      <<"N","o","p","e">>,
      <<"n","o"," ","t","h","a","n","k","s">>,
      <<"N","o",","," ","t","h","a","n","k","s">>,
      <<"n","o","t","h","i","n","g">>,
      <<"t","h","a","t","'","s"," ","a","l","l">>,
      <<"I","'","m"," ","g","o","o","d">>,
      <<"n","o","p","e","n","o","t","h","i","n","g">>,
      <<"n","o","t","h","i","n","g","n","e","s","s">>,
      <<"n","o","t","a","b","l","e">>,
      <<"k","n","o","w">>,
      <<"y","e","s">>,
      <<"w","h","a","t"," ","a","r","e"," ","y","o","u","r"," ","h","o","u","r","s">> }

AnswerEndings ==
    { << >>,
      <<".">>,
      <<" ","t","h","e","n">>,
      <<" ","p","l","e","a","s","e","!">> }

Answers == { o \o w \o e : o \in AnswerOpenings, w \in AnswerWords, e \in AnswerEndings }

InitConfirmation ==
    /\ Accepted
    /\ codec = NoCodec
    /\ peer = NoPeer
    /\ lookup = NoLookup
    /\ session = NoSession
    /\ voice = NoCalls
    /\ confirmation \in { [NoConfirmation EXCEPT !.transcript = t] : t \in Answers }

\* lines 642 and 657-663 on the transcript
ClassifyAnswer ==
    /\ confirmation.stage = "idle"
    /\ confirmation' = [confirmation EXCEPT
                           !.stage = "classified",
                           !.negative = is_no_response(confirmation.transcript)]
    /\ UNCHANGED << connection, codec, peer, lookup, session, voice >>

NextConfirmation == ClassifyAnswer

SpecConfirmation == InitConfirmation /\ [][NextConfirmation]_vars

----------------------------------------------------------------------------
(* Properties                                                              *)

\* the transcripts by their classification at lines 643-663
Garbage == { t \in Transcripts : is_garbage(t) }
SimpleAcks == { t \in Transcripts : is_simple_ack(t) }
ExitTranscripts == { t \in Transcripts : is_exit(t) }
NegativeConfirmations == { t \in Transcripts : is_no_response(t) }
GoodbyeConfirmations == { t \in Transcripts : ConfirmsGoodbye(t) }

\* C1: a loud frame that the carrier delivers while the chunks of a reply
\* are being streamed interrupts the reply: the send loop ends before the
\* last chunk of the reply has been sent.
C1_InterruptionStopsReply ==
    (turn.reply_done /\ barge_in) => Len(sent.chunks) < NumChunks(mulaw_audio)

\* C2: once at least MIN_AUDIO_LENGTH bytes of speech have been collected
\* and a silent frame is handled SILENCE_DURATION_TO_PROCESS or more after
\* the last speech frame, the utterance has been flushed (a flush sets the
\* collected speech back to zero), also right after a reply.
C2_SilenceFlushes ==
    ~ ( /\ utt_speech >= MIN_AUDIO_LENGTH
        /\ ~heard.speech
        /\ heard.time - last_audio_time >= SILENCE_DURATION_TO_PROCESS )

\* C3: the transcription service is never called with fewer than
\* MIN_AUDIO_LENGTH bytes of audio, however long the silence.
C3_NoShortFlush ==
    pc = "transcribe" => SamplesLen(wav_audio) >= MIN_AUDIO_LENGTH

\* a short buffer, the caller marked as speaking, and a silent frame handled
\* long after the last speech frame: no flush
C3_Witness ==
    /\ pc = "recv"
    /\ user_is_speaking
    /\ BufLen(audio_buffer) > 0
    /\ BufLen(audio_buffer) < MIN_AUDIO_LENGTH
    /\ ~heard.speech
    /\ last_audio_time > 0
    /\ heard.time - last_audio_time >= SILENCE_DURATION_TO_PROCESS

\* C4: the buffer always holds fewer than BUFFER_CEILING bytes: a frame
\* that brings it to the ceiling is flushed while it is handled.
C4_BufferBelowCeiling == BufLen(audio_buffer) < BUFFER_CEILING

\* a flush forced by a speech frame, with no silence at all
C4_Witness ==
    /\ pc = "transcribe"
    /\ SamplesLen(wav_audio) >= BUFFER_CEILING
    /\ heard.speech
    /\ heard.time = last_audio_time

C6_NoAlwaysSaysGoodbye ==
    ( /\ turn.pending
      /\ turn.transcribed
      /\ transcript \in NegativeConfirmations
      /\ in_flight = 0 )
    => /\ sent.msg = "bye"
       /\ Len(sent.chunks) = NumChunks(mulaw_audio)
       /\ closed
       /\ pc = "ended"
       /\ turn.chat = 0

\* C6, with the failures of the collaborators: after a negative confirmation
\* the dialogue engine is not called and the conversation is untouched; the
\* closing message is attempted and is sent in full when its synthesis, its
\* conversion and every send succeed; then close() is called, and when it
\* succeeds the handler has returned; when it raises the receive loop goes
\* on with pending_goodbye still set.
C6_NoClosesCall ==
    ( /\ turn.pending
      /\ turn.transcribed
      /\ transcript \in NegativeConfirmations )
    => /\ turn.chat = 0
       /\ turn.via = "none"
       /\ conversation = turn.history
       /\ sent.msg \in { "none", "bye" }
       /\ in_flight = 1 => pc \in { "bye_tts", "bye_send", "closing" }
       /\ in_flight = 0 => ( turn.bye # "none" /\ turn.close # "none" )
       /\ turn.close # "none" => turn.bye # "none"
       /\ turn.bye = "sent" => /\ sent.msg = "bye"
                               /\ Len(sent.chunks) = NumChunks(mulaw_audio)
       /\ turn.close = "ok" => ( closed /\ pc = "ended" )
       /\ turn.close = "raise" => ( ~closed /\ pending_goodbye )

\* "No." after the confirmation question: message sent, call closed
C6_Witness ==
    /\ pc = "ended"
    /\ closed
    /\ turn.pending
    /\ transcript \in NegativeConfirmations
    /\ transcript \notin Garbage
    /\ turn.bye = "sent"
    /\ sent.msg = "bye"
    /\ Len(sent.chunks) = NumChunks(mulaw_audio)

\* C7: while pending_goodbye is true, a transcript that is neither a
\* negative confirmation nor garbage goes to the dialogue engine in the same
\* turn; the call is not closed and the confirmation question is not asked
\* again on the strength of the transcript's phrases.
C7_FollowUpResumesDialogue ==
    ( /\ turn.pending
      /\ turn.transcribed
      /\ transcript \notin GoodbyeConfirmations )
    => /\ turn.via # "phrase"
       /\ pc = "chat" \/ turn.chat >= 1
       /\ pc \notin { "bye_tts", "bye_send", "closing" }

\* C8: a transcript equal to a NOT_EXIT_PHRASES entry never sets
\* pending_goodbye, and when pending_goodbye is false it takes the normal
\* reply path, the sentinel removed from the reply.
C8_AckTakesReplyPath ==
    ( /\ turn.transcribed
      /\ transcript \in SimpleAcks )
    => /\ turn.via = "none"
       /\ ~turn.pending => ( /\ ~pending_goodbye
                             /\ pc = "chat" \/ turn.chat >= 1 )
       /\ pc \in { "reply_tts", "reply_send" } => ~HasSentinel(ai_response)

\* C8, with the garbage filter: a transcript equal to a NOT_EXIT_PHRASES
\* entry never sets pending_goodbye and never has the confirmation question
\* asked; when pending_goodbye is false it takes the normal reply path, the
\* sentinel removed from the reply, unless it is garbage (fewer than three
\* characters, "ok"): then the turn is dropped with no dialogue call, no
\* change to the conversation and nothing sent.
C8_AckNeverExits ==
    ( /\ turn.transcribed
      /\ transcript \in SimpleAcks )
    => /\ turn.via = "none"
       /\ pc \notin { "ask_tts", "ask_send" }
       /\ sent.msg # "ask"
       /\ ~turn.pending => ~pending_goodbye
       /\ ( ~turn.pending /\ transcript \notin Garbage )
              => ( pc = "chat" \/ turn.chat >= 1 )
       /\ ( ~turn.pending /\ transcript \in Garbage )
              => ( /\ turn.chat = 0
                   /\ conversation = turn.history
                   /\ sent = NoSent
                   /\ in_flight = 0 )
       /\ pc \in { "reply_tts", "reply_send" } => ~HasSentinel(ai_response)
       /\ sent.msg = "reply" => ~HasSentinel(ai_response)

\* " Thank you" answered by a reply that carried the sentinel: the reply is
\* streamed without it and pending_goodbye stays false
C8_Witness ==
    /\ pc = "reply_send"
    /\ chunks_sent > 0
    /\ ~turn.pending
    /\ ~pending_goodbye
    /\ transcript \in SimpleAcks
    /\ ai_response = RemoveSentinel(R_EXIT)

\* C9: when pending_goodbye is false, an exit phrase that is not a simple
\* acknowledgement sets pending_goodbye, has the whole confirmation question
\* sent, and causes no dialogue processing: no dialogue call, conversation
\* unchanged.
C9_ExitAsksQuestion ==
    ( /\ ~turn.pending
      /\ turn.transcribed
      /\ transcript \in ExitTranscripts
      /\ in_flight = 0 )
    => /\ pending_goodbye
       /\ sent.msg = "ask"
       /\ Len(sent.chunks) = NumChunks(mulaw_audio)
       /\ turn.chat = 0
       /\ conversation = turn.history

\* C10: the dialogue engine is never being called while pending_goodbye is
\* true.
C10_NoDialogueWhilePending ==
    pc \in { "chat", "chat_final" } => ~pending_goodbye

\* a follow-up to the confirmation question is on its way to the dialogue
\* engine
C10_Witness ==
    /\ pc = "chat"
    /\ turn.pending
    /\ transcript \notin GoodbyeConfirmations

\* C11: a reply with the sentinel to a transcript that is not a simple
\* acknowledgement ends like a phrase exit: pending_goodbye is true, the
\* whole confirmation question was sent, the reply was not spoken, and the
\* conversation is what it was before the turn.
C11_LlmExitLikePhraseExit ==
    ( /\ turn.via = "llm"
      /\ in_flight = 0 )
    => /\ pending_goodbye
       /\ sent.msg = "ask"
       /\ Len(sent.chunks) = NumChunks(mulaw_audio)
       /\ conversation = turn.history

\* a collaborator call of a turn raises: the transcription, a chat
\* completion, the synthesis of the question or of the reply
TurnRaises ==
    \/ \E t \in Transcripts : Transcribed("raise", t)
    \/ \E r \in Replies, c \in ToolCallLists : Chat("raise", r, c)
    \/ \E r \in Replies : ChatFinal("raise", r)
    \/ \E n \in AudioLens : AskTTS("raise", n)
    \/ \E n \in AudioLens : ReplyTTS("raise", n)

\* the synthesis of the closing message raises
ByeRaises == \E n \in AudioLens : ByeTTS("raise", n)

\* the coroutine is back at receive_text() with the state of a listening
\* session; the primed copy is the state after a step
Listening ==
    /\ pc = "recv"
    /\ ~closed
    /\ ~is_speaking
    /\ audio_buffer = <<>>
    /\ ~user_is_speaking

\* C12: whenever a collaborator call of a turn raises, the next state is a
\* listening one: the coroutine is back at receive_text(), the socket is not
\* closed, is_speaking and user_is_speaking are false and audio_buffer is
\* empty.
C12_EveryExceptionDropsTurn ==
    [][ (TurnRaises \/ ByeRaises) => Listening' ]_vars

\* C12, with the closing message: when the transcription, a chat completion
\* or the synthesis of the question or of the reply raises, the next state
\* is a listening one; when the synthesis of the closing message raises, the
\* exception is caught as well and the handler goes on to close the socket.
C12_ExceptionDropsTurn ==
    [][ /\ TurnRaises => Listening'
        /\ ByeRaises => ( pc' = "closing" /\ ~closed' /\ turn'.bye = "failed" ) ]_vars

\* the transcription of the first utterance raised; the session listens
C12_Witness ==
    /\ turns = 1
    /\ in_flight = 0
    /\ ~turn.transcribed
    /\ Listening
    /\ conversation = turn.history

\* C13: a frame that cannot be parsed (invalid JSON, or a media payload that
\* is not base64) ends only the iteration that received it: afterwards the
\* coroutine is at receive_text() again, ready for the next frame.
C13_MalformedFrameSkipped ==
    [][ ( \E f \in TurnFrames : RecvMalformed(f, MaxTurnFrames) )
            => pc' = "recv" ]_vars

\* C14: at the end of every turn the conversation has at most 12 entries
\* and starts with the system prompt, and a step that shortens it keeps the
\* first entry followed by the last 10 entries, in order.
C14_HistoryBounded ==
    /\ [](in_flight = 0 =>
            /\ Len(conversation) <= 12
            /\ conversation[1] = SystemMessage)
    /\ [][Len(conversation') < Len(conversation) =>
            conversation' = << conversation[1] >>
                \o SubSeq(conversation, Len(conversation) - 9, Len(conversation))]_vars

\* C15: for every mu-law byte, decoding, encoding and decoding again gives
\* a sample within one quantization step of the first decoded sample, and
\* the silence byte 0xFF, which decodes to 0, comes back as a byte that
\* decodes to 0.
C15_CodecRoundTrip ==
    codec.stage = "round_trip" =>
        /\ Abs(codec.again - codec.sample) <= QuantizationStep(codec.byte)
        /\ codec.byte = 255 => ( codec.sample = 0 /\ codec.again = 0 )

\* what the current or last turn has appended to the conversation
Appended == SubSeq(conversation, Len(turn.history) + 1, Len(conversation))

\* C16: a turn in which the engine asked for tool calls ends with, after the
\* user message, the assistant tool-call message, then one tool message per
\* call, in the order of the calls, each holding the non-empty result of
\* execute_function, and with the engine invoked exactly twice.
C16_ToolCallsResolvedOnce ==
    ( /\ in_flight = 0
      /\ Len(Appended) >= 2
      /\ Appended[2].tool_calls # <<>> )
    => LET calls == Appended[2].tool_calls IN
       /\ Appended[1].role = "user"
       /\ Appended[2].role = "assistant"
       /\ Len(Appended) >= 2 + Len(calls)
       /\ \A i \in 1..Len(calls) :
             /\ Appended[2 + i] = Message("tool", execute_function(calls[i].name))
             /\ Appended[2 + i].content # <<>>
       /\ \A i \in (3 + Len(calls))..Len(Appended) :
             /\ Appended[i].role = "assistant"
             /\ Appended[i].tool_calls = <<>>
       /\ Len(Appended) <= 3 + Len(calls)
       /\ turn.chat = 2

\* samples of w that are speech (above the threshold), and the others
RECURSIVE SpeechSamples(_)
SpeechSamples(w) ==
    IF w = <<>> THEN 0
    ELSE ( IF Abs(Head(w).sample) > ENERGY_THRESHOLD THEN Head(w).len ELSE 0 )
         + SpeechSamples(Tail(w))

\* the stream is over: every frame has been handled, or the handler ended
StreamOver == pc = "ended" \/ ( delivered = StreamLen /\ pc = "recv" )

\* C17: the start event, 1.5 s of speech and 1.3 s of silence give exactly
\* one transcription call; its audio is all the speech frames and at most
\* 300 ms (TRAILING_SILENCE) of the silence.
C17_OneUtteranceOneCall ==
    /\ turns <= 1
    /\ StreamOver => turns = 1
    /\ pc = "transcribe" =>
          /\ SpeechSamples(wav_audio) = SpeechFrames * StreamFrameLen
          /\ SamplesLen(wav_audio) - SpeechSamples(wav_audio)
                <= TRAILING_SILENCE * StreamFrameLen

\* the coroutine is waiting for the transcription, the dialogue engine or
\* the synthesis
InCollaboratorCall ==
    pc \in { "transcribe", "chat", "chat_final",
             "greet_tts", "ask_tts", "bye_tts", "reply_tts" }

\* C18: while this connection waits for the transcription, the dialogue
\* engine or the synthesis, a frame that waits at the second connection can
\* be handled.
C18_CollaboratorCallsSuspend ==
    ( InCollaboratorCall /\ peer.waiting > 0 ) => ENABLED PeerHandles

\* C19: the search_knowledge tool call with the query "what are your
\* business hours" returns the answer of the business_hours topic.
C19_BusinessHoursAnswer ==
    ( /\ lookup.stage = "done"
      /\ lookup.arguments = [query |-> Q_WHAT_ARE_YOUR \o Q_BUSINESS_HOURS] )
    => lookup.result = Answer("business_hours")

\* C20: every write of an existing entry, by save_session or by
\* /update-session, leaves it with the full SESSION_TTL.
C20_SlidingExpiry ==
    ( session.op \in { "save", "update" } /\ session.had )
    => ( session.exists /\ session.ttl = SESSION_TTL )

\* C20, with the endpoint as written: save_session leaves the entry with
\* the full SESSION_TTL; /update-session replaces the step and keeps the
\* time-to-live the entry had, and writes SESSION_TTL only when that was 0.
C20_SaveSlidesUpdateKeeps ==
    /\ session.op = "save" => ( session.exists /\ session.ttl = SESSION_TTL )
    /\ session.op = "update" =>
          /\ session.exists /\ session.had
          /\ session.before > 0 => session.ttl = session.before
          /\ session.before = 0 => session.ttl = SESSION_TTL
    /\ session.op = "not_found" => ~session.exists

\* /update-session on an entry that had part of its time left
C20_Witness ==
    /\ session.op = "update"
    /\ session.before > 0
    /\ session.before < SESSION_TTL
    /\ session.ttl = session.before

\* C21: when a connection handler of voice_ivr has ended, conversations
\* holds no entry of that connection, and no step removes or replaces the
\* entry of a connection that has not ended unless that connection takes
\* the step itself.
C21_NoStateAfterCall ==
    /\ [](\A c \in Conns : voice.conn[c].pc = "ended" =>
             \A k \in StreamKeys : voice.conversations[k] # c)
    /\ [][\A c \in Conns, k \in StreamKeys :
             ( /\ voice.conversations[k] = c
               /\ voice.conn[c].pc # "ended"
               /\ voice'.conn[c] = voice.conn[c] )
             => voice'.conversations[k] = c]_vars

\* C22: audio_buffer loses bytes only when an utterance is flushed and when
\* a playback starts or ends; a media frame that is handled without a flush,
\* such as a below-threshold frame within MIN_PAUSE_AFTER_SPEECH of the last
\* reply, leaves the bytes collected so far in the buffer.
C22_BufferAppendOnly ==
    [][ BufLen(audio_buffer') < BufLen(audio_buffer) =>
            \/ pc = "recv" /\ pc' = "transcribe"
            \/ pc \in { "ask_tts", "ask_send", "reply_tts", "reply_send" } ]_vars

\* C23: while the user is speaking, a below-threshold frame that follows a
\* speech frame is the first frame of a new pause and is appended: after it
\* the buffer, or the audio flushed in that step, is longer by the frame.
C23_PauseMeasuredFromItsStart ==
    [][ \A f \in VadFrames :
          ( /\ RecvMedia(f, MaxFrames)
            /\ HasAudio(f)
            /\ calculate_audio_energy(f) < ENERGY_THRESHOLD
            /\ ~InCooldown(now, calculate_audio_energy(f))
            /\ ~is_speaking
            /\ user_is_speaking
            /\ heard.speech )
          => IF pc' = "transcribe"
             THEN SamplesLen(wav_audio') = BufLen(audio_buffer) + f.len
             ELSE BufLen(audio_buffer') = BufLen(audio_buffer) + f.len ]_vars

\* C24: when pending_goodbye is false at the flush, a garbage transcript
\* ends the turn at once: the dialogue engine is not called, no synthesis is
\* requested and nothing is sent, and conversation and pending_goodbye are
\* what they were.
C24_GarbageTriggersNoTurn ==
    ( /\ turn.transcribed
      /\ ~turn.pending
      /\ transcript \in Garbage )
    => /\ in_flight = 0
       /\ pc \in { "recv", "greet_tts", "ended" }
       /\ turn.chat = 0
       /\ turn.via = "none"
       /\ turn.asked = "none" /\ turn.bye = "none" /\ ~turn.reply_done
       /\ sent = NoSent
       /\ conversation = turn.history
       /\ ~pending_goodbye
       /\ ~closed

\* "You." came back for the first utterance, a filler token of more than
\* two characters, and the session listens again
C24_Witness ==
    /\ turn.transcribed
    /\ ~turn.pending
    /\ transcript = T_YOU
    /\ pc = "recv"
    /\ in_flight = 0
    /\ conversation = << SystemMessage >>

\* phrase p occurs in s as a sequence of whole tokens: in s, lower-cased
\* and without the punctuation at the ends of its tokens, the words of p
\* stand between spaces or the ends of s
RECURSIVE Tokens(_, _)
Tokens(s, word) ==
    IF s = << >> THEN ( IF word = << >> THEN << >> ELSE << word >> )
    ELSE IF Head(s) = " "
         THEN ( IF word = << >> THEN << >> ELSE << word >> ) \o Tokens(Tail(s), << >>)
         ELSE Tokens(Tail(s), Append(word, Head(s)))

TokensOf(s) ==
    LET words == Tokens(Lower(s), << >>)
    IN  SelectSeq([i \in 1..Len(words) |-> StripChars(words[i], PUNCTUATION)],
                  LAMBDA w : w # << >>)

OccursAsTokens(s, p) ==
    LET ts == TokensOf(s)
        tp == TokensOf(p)
    IN  \E i \in 1..(Len(ts) - Len(tp) + 1) : SubSeq(ts, i, i + Len(tp) - 1) = tp

\* C25: a transcript is classified as a negative confirmation exactly when
\* a NO_RESPONSES phrase occurs in it as a sequence of whole tokens, at any
\* place; a phrase that occurs only inside a longer word does not count.
C25_WholeTokenMatch ==
    confirmation.stage = "classified" =>
        ( confirmation.negative
            <=> \E i \in 1..Len(NO_RESPONSES) :
                   OccursAsTokens(confirmation.transcript, NO_RESPONSES[i]) )

\* C26: the playAudio frames of a message are consecutive slices of its
\* synthesized audio, in order: the k-th frame starts at byte (k - 1) * 640,
\* has 640 bytes, or what is left when that is less, and no frame is empty;
\* when a reply has been played to its end without interruption the slices
\* cover the whole audio.
C26_ChunksInOrder ==
    /\ [](\A k \in 1..Len(sent.chunks) :
             /\ sent.chunks[k].at = (k - 1) * 640
             /\ sent.chunks[k].len > 0
             /\ sent.chunks[k].at + sent.chunks[k].len <= mulaw_audio
             /\ k < Len(sent.chunks) => sent.chunks[k].len = 640)
    /\ [][ ( ReplyDone /\ ~is_interrupted ) =>
             /\ sent'.msg = "reply"
             /\ Len(sent'.chunks) > 0
             /\ LET last == sent'.chunks[Len(sent'.chunks)]
                IN  last.at + last.len = mulaw_audio ]_vars

\* a reply of 1000 bytes has been played to its end: 640 bytes, then 360
C26_Witness ==
    /\ turn.reply_done
    /\ sent.msg = "reply"
    /\ Len(sent.chunks) = 2
    /\ sent.chunks[2].len < 640
    /\ sent.chunks[2].at + sent.chunks[2].len = mulaw_audio

\* C27: the sleep that follows a 640-byte frame lasts as long as the frame
\* plays: 640 bytes at 8000 bytes per second, 80 ms.
C27_SleepIsChunkDuration ==
    \A k \in 1..Len(sent.chunks) :
        sent.chunks[k].len = 640 =>
            /\ sent.chunks[k].sleep = (sent.chunks[k].len * 1000) \div BYTES_PER_SECOND
            /\ sent.chunks[k].sleep = 80

\* C28: audio_buffer is empty whenever is_speaking is true, and every step
\* that takes is_speaking from true to false sets last_response_time to the
\* clock reading of that moment and leaves audio_buffer empty.
C28_SpeakingEndStamped ==
    /\ [](is_speaking => audio_buffer = <<>>)
    /\ [][ ( is_speaking /\ ~is_speaking' ) =>
             /\ last_response_time' = now'
             /\ audio_buffer' = <<>> ]_vars

\* the question has been played while the clock went on; the session
\* listens with the end of the playback as last_response_time
C28_Witness ==
    /\ pc = "recv"
    /\ turn.asked = "sent"
    /\ ~is_speaking
    /\ last_response_time = now
    /\ now > StartTime
    /\ audio_buffer = <<>>

\* C29: whenever the handler waits at receive_text() for the next frame,
\* is_speaking is false, so that the interruption branch drops no speech
\* frame handled by the receive loop.
C29_ListeningNotSpeaking ==
    pc = "recv" => ~is_speaking

\* C30: once the confirmation question is pending, an exit phrase that is
\* not a negative confirmation ("Bye.") gets the call closed, and no turn
\* asks the confirmation question again when the turn before it asked it
\* and no dialogue reply has been given since.
C30_GoodbyeTerminates ==
    ( /\ turn.pending
      /\ turn.transcribed
      /\ transcript \in ExitTranscripts \ GoodbyeConfirmations )
    => /\ turn.via = "none"
       /\ sent.msg # "ask"
       /\ ( in_flight = 0 /\ turn.close = "ok" ) => ( closed /\ pc = "ended" )
       /\ in_flight = 0 => turn.close # "none"

\* C31: pending_goodbye is true only if the confirmation question has been
\* sent to the caller since pending_goodbye last became true.  A turn that
\* sets pending_goodbye (by an exit phrase or by the sentinel of the engine)
\* and has ended leaves it true only when the whole question was sent; a
\* turn that does not set it cannot make it true.
C31_PendingOnlyAfterQuestion ==
    ( /\ in_flight = 0
      /\ turn.via # "none"
      /\ pending_goodbye )
    => /\ turn.asked = "sent"
       /\ sent.msg = "ask"
       /\ Len(sent.chunks) = NumChunks(mulaw_audio)

\* the tool-result message at position i of conv follows, with only
\* tool-result messages in between, an assistant message that carries at
\* least that many tool calls (lines 775-793 append them in this shape)
FollowsItsToolCall(conv, i) ==
    \E j \in 1..(i - 1) :
        /\ conv[j].role = "assistant"
        /\ i - j <= Len(conv[j].tool_calls)
        /\ \A k \in (j + 1)..i : conv[k].role = "tool"

ToolResultsPaired(conv) ==
    \A i \in 1..Len(conv) : conv[i].role = "tool" => FollowsItsToolCall(conv, i)

\* C32: after every trim of the conversation, each tool-result message
\* that remains is still preceded by the assistant message that carries
\* its tool call.
C32_TrimKeepsToolCallPairs ==
    [][Len(conversation') < Len(conversation) => ToolResultsPaired(conversation')]_vars

\* until the first trim every tool-result message follows its tool call
C32_PairedUntilTrimmed ==
    [][Len(conversation') >= Len(conversation) /\ ToolResultsPaired(conversation)
            => ToolResultsPaired(conversation')]_vars

\* C33: for every mu-law byte, mulaw_decode gives an integer of the signed
\* 16-bit range, and so does decode_mulaw of voice_ivr, so packing the
\* samples into the 16-bit WAV does not fail.
C33_DecodedFitsInt16 ==
    /\ codec.stage # "idle" =>
          /\ codec.sample >= INT16_MIN
          /\ codec.sample <= INT16_MAX
    /\ codec.packed # "error"
    /\ codec.stage = "wav" =>
          /\ codec.wav >= INT16_MIN
          /\ codec.wav <= INT16_MAX
          /\ codec.wav_packed = "ok"

\* the byte with the largest sample, 0x80, has been decoded and packed
C33_Witness ==
    /\ codec.stage = "packed"
    /\ codec.byte = 128
    /\ codec.sample = 32124
    /\ codec.packed = "ok"

\* C34: for every mu-law byte the three decoders give the same integer: the
\* decode inside calculate_audio_energy, mulaw_decode, and decode_mulaw of
\* voice_ivr, which inverts the byte without masking it to 8 bits.
C34_DecodersAgree ==
    codec.stage = "wav" =>
        /\ codec.energy = codec.sample
        /\ codec.wav = codec.sample

\* byte 0x00, whose unmasked inverse is -1, has gone through the three
\* decoders and is the most negative sample
C34_Witness ==
    /\ codec.stage = "wav"
    /\ codec.byte = 0
    /\ codec.wav = -32124
    /\ codec.energy = -32124

====
